---- MODULE Spec2Model ----
(***************************************************************************)
(* StudyFlow backend: the exam store, the grading engine and the attempt   *)
(* tracker (backend/main.py, backend/exam_generator.py).                   *)
(*                                                                         *)
(* Text is a sequence of one-character strings, so that str.lower(),       *)
(* str.upper(), str.strip(), str.split() and len() are computed character  *)
(* by character as Python computes them.  A JSON value is a record tagged  *)
(* with its Python type.                                                   *)
(***************************************************************************)
EXTENDS Integers, Sequences, FiniteSets, TLC

(***************************************************************************)
(* Bounds of the model.                                                    *)
(***************************************************************************)
MaxAttempts == 2      \* submissions recorded per exam before the model stops
MaxTime == 3          \* the wall clock reads 0..MaxTime
MaxQuestions == 40    \* questions of an exam of the scoring specification
MaxBlocks == 2        \* question blocks of a generated text
MaxCount == 20        \* question_count of a mixed request is 0..MaxCount
MaxBeats == 2         \* heartbeat messages of an upload-processing run
MaxElapsed == 8       \* whole seconds a heartbeat loop can read
MaxCards == 2         \* flashcards generated for an upload
ReadingsPerSecond == 2   \* readings of the wall clock that fall in one second

(***************************************************************************)
(* Python str methods.                                                     *)
(***************************************************************************)
\* set(seq)
ToSet(seq) == {seq[i] : i \in 1..Len(seq)}

UpperLetters ==
  <<"A","B","C","D","E","F","G","H","I","J","K","L","M",
    "N","O","P","Q","R","S","T","U","V","W","X","Y","Z">>

LowerLetters ==
  <<"a","b","c","d","e","f","g","h","i","j","k","l","m",
    "n","o","p","q","r","s","t","u","v","w","x","y","z">>

\* U+0130, LATIN CAPITAL LETTER I WITH DOT ABOVE: one character whose
\* lower() is the two characters "i", U+0307.
IDot == "U+0130"

CombiningDot == "U+0307"

IsWhitespace(c) == c \in {" ", "\t", "\n"}

LowerTable ==
  [c \in ToSet(UpperLetters) |->
     LowerLetters[CHOOSE i \in 1..26 : UpperLetters[i] = c]]

UpperTable ==
  [c \in ToSet(LowerLetters) |->
     UpperLetters[CHOOSE i \in 1..26 : LowerLetters[i] = c]]

\* str.lower() of one character: a sequence of characters.
LowerChar(c) ==
  IF c \in DOMAIN LowerTable THEN <<LowerTable[c]>>
  ELSE IF c = IDot THEN <<"i", CombiningDot>> ELSE <<c>>

\* str.upper() of one character.
UpperChar(c) ==
  IF c \in DOMAIN UpperTable THEN <<UpperTable[c]>> ELSE <<c>>

RECURSIVE Lower(_)
Lower(s) == IF s = <<>> THEN <<>> ELSE LowerChar(Head(s)) \o Lower(Tail(s))

RECURSIVE Upper(_)
Upper(s) == IF s = <<>> THEN <<>> ELSE UpperChar(Head(s)) \o Upper(Tail(s))

RECURSIVE LStrip(_)
LStrip(s) ==
  IF s # <<>> /\ IsWhitespace(Head(s)) THEN LStrip(Tail(s)) ELSE s

RECURSIVE RStrip(_)
RStrip(s) ==
  IF s # <<>> /\ IsWhitespace(s[Len(s)])
    THEN RStrip(SubSeq(s, 1, Len(s) - 1)) ELSE s

\* str.strip()
Strip(s) == RStrip(LStrip(s))

\* str.split() with no argument: the maximal runs of non-whitespace.
RECURSIVE SplitWs(_, _)
SplitWs(s, cur) ==
  IF s = <<>> THEN (IF cur = <<>> THEN <<>> ELSE <<cur>>)
  ELSE IF IsWhitespace(Head(s))
    THEN (IF cur = <<>> THEN <<>> ELSE <<cur>>) \o SplitWs(Tail(s), <<>>)
    ELSE SplitWs(Tail(s), Append(cur, Head(s)))

Split(s) == SplitWs(s, <<>>)

\* needle in hay (substring test)
Contains(hay, needle) ==
  \E i \in 0..(Len(hay) - Len(needle)) :
    SubSeq(hay, i + 1, i + Len(needle)) = needle

\* str.split(sep) for a one-character separator: every piece, empty ones too.
RECURSIVE SplitOnChar(_, _, _)
SplitOnChar(s, sep, cur) ==
  IF s = <<>> THEN <<cur>>
  ELSE IF Head(s) = sep THEN <<cur>> \o SplitOnChar(Tail(s), sep, <<>>)
  ELSE SplitOnChar(Tail(s), sep, Append(cur, Head(s)))

SplitOn(s, sep) == SplitOnChar(s, sep, <<>>)

Digits == <<"0","1","2","3","4","5","6","7","8","9">>

\* str(n) for an integer n >= 0
RECURSIVE IntStr(_)
IntStr(n) ==
  IF n < 10 THEN <<Digits[n + 1]>> ELSE IntStr(n \div 10) \o <<Digits[(n % 10) + 1]>>

(***************************************************************************)
(* JSON values of a submission, tagged with their Python type.             *)
(***************************************************************************)
PyNone == [t |-> "none", b |-> FALSE, n |-> 0, s |-> <<>>]

PyBool(x) == [t |-> "bool", b |-> x, n |-> 0, s |-> <<>>]

PyInt(x) == [t |-> "int", b |-> FALSE, n |-> x, s |-> <<>>]

PyStr(x) == [t |-> "str", b |-> FALSE, n |-> 0, s |-> x]

\* a list holding the one string x
PyList(x) == [t |-> "list", b |-> FALSE, n |-> 0, s |-> x]

\* str(v)
Str(v) ==
  CASE v.t = "none" -> <<"N","o","n","e">>
    [] v.t = "bool" -> IF v.b THEN <<"T","r","u","e">> ELSE <<"F","a","l","s","e">>
    [] v.t = "int" -> IntStr(v.n)
    [] v.t = "str" -> v.s
    [] v.t = "list" -> <<"[", "'">> \o v.s \o <<"'", "]">>

\* bool(v): Python truthiness
Truthy(v) ==
  CASE v.t = "none" -> FALSE
    [] v.t = "bool" -> v.b
    [] v.t = "int" -> v.n # 0
    [] v.t = "str" -> v.s # <<>>
    [] v.t = "list" -> TRUE

(***************************************************************************)
(* Questions, as the parsers of exam_generator.py store them.              *)
(***************************************************************************)
\* a dict with no entry
NoOptions == [k \in {} |-> <<>>]

TrueFalseQ(text, answer) ==
  [type |-> "true_false", question |-> text, correct_answer |-> PyBool(answer),
   sample_answer |-> <<>>, key_points |-> <<>>, options |-> NoOptions]

\* exam_generator.py 249-255: options maps option letters to option texts,
\* correct is one character
MultipleChoiceOf(text, options, correct) ==
  [type |-> "multiple_choice", question |-> text, correct_answer |-> PyStr(<<correct>>),
   sample_answer |-> <<>>, key_points |-> <<>>, options |-> options]

OptionLetters == {"A", "B", "C", "D"}

\* a multiple_choice question of four options of the same text
MultipleChoiceQ(text, letter) ==
  MultipleChoiceOf(text, [k \in OptionLetters |-> <<"x">>], letter)

ShortAnswerQ(text, sample, points) ==
  [type |-> "short_answer", question |-> text, correct_answer |-> PyNone,
   sample_answer |-> sample, key_points |-> points, options |-> NoOptions]

(***************************************************************************)
(* The parsers of exam_generator.py.  The explanation of a question is not *)
(* kept in the model: no handler reads it.                                 *)
(***************************************************************************)
Newline == "\n"

\* s.startswith(prefix)
StartsWith(s, prefix) ==
  Len(s) >= Len(prefix) /\ SubSeq(s, 1, Len(prefix)) = prefix

\* line.split(':', 1)[1] for a line that holds a colon
AfterColon(line) ==
  LET i == CHOOSE j \in 1..Len(line) :
             line[j] = ":" /\ \A h \in 1..(j - 1) : line[h] # ":"
  IN  SubSeq(line, i + 1, Len(line))

\* the positions from which the pattern \n\s*Q: matches
match_starts(text) ==
  {i \in 1..Len(text) :
     /\ text[i] = Newline
     /\ StartsWith(LStrip(SubSeq(text, i + 1, Len(text))), <<"Q", ":">>)}

\* re.split(r'\n\s*Q:\s*', text) from position from on: the leftmost match
\* takes the whitespace before Q: and all the whitespace after the colon
RECURSIVE re_split(_, _)
re_split(text, from) ==
  LET starts == {i \in match_starts(text) : i >= from}
      i == CHOOSE j \in starts : \A h \in starts : j <= h
      marker == LStrip(SubSeq(text, i + 1, Len(text)))
      after == LStrip(SubSeq(marker, 3, Len(marker)))
  IN  IF starts = {} THEN <<SubSeq(text, from, Len(text))>>
      ELSE <<SubSeq(text, from, i - 1)>> \o re_split(text, Len(text) - Len(after) + 1)

\* for section in sections[1:]
sections_of(text) == Tail(re_split(text, 1))

\* lines = section.strip().split('\n')
lines_of(section) == SplitOn(Strip(section), Newline)

RECURSIVE Flatten(_)
Flatten(seqs) == IF seqs = <<>> THEN <<>> ELSE Head(seqs) \o Flatten(Tail(seqs))

CorrectMarker == <<"C","O","R","R","E","C","T",":">>

AnswerMarker == <<"A","N","S","W","E","R",":">>

SampleAnswerMarker == <<"S","A","M","P","L","E","_","A","N","S","W","E","R",":">>

KeyPointsMarker == <<"K","E","Y","_","P","O","I","N","T","S",":">>

\* exam_generator.py 231-246: the lines after the first.  raised: an
\* exception left the loop ([0] of an empty string)
RECURSIVE multiple_choice_lines(_, _)
multiple_choice_lines(lines, st) ==
  IF lines = <<>> \/ st.raised THEN st
  ELSE LET line == Strip(Head(lines))
       IN  IF Len(line) >= 2 /\ line[1] \in OptionLetters /\ line[2] = ")"
             THEN multiple_choice_lines(Tail(lines),
                    [st EXCEPT !.options =
                       [k \in (DOMAIN st.options) \cup {line[1]} |->
                          IF k = line[1] THEN Strip(SubSeq(line, 3, Len(line)))
                          ELSE st.options[k]]])
           ELSE IF StartsWith(line, CorrectMarker)
             THEN IF Upper(Strip(AfterColon(line))) = <<>>
                    THEN [st EXCEPT !.raised = TRUE]
                    ELSE multiple_choice_lines(Tail(lines),
                           [st EXCEPT !.correct = <<Upper(Strip(AfterColon(line)))[1]>>])
           ELSE multiple_choice_lines(Tail(lines), st)

\* exam_generator.py 223-258: the questions one section gives, none or one
multiple_choice_section(section) ==
  LET lines == lines_of(section)
      question_text == Strip(lines[1])
      st == multiple_choice_lines(Tail(lines),
              [options |-> NoOptions, correct |-> <<>>, raised |-> FALSE])
  IN  IF /\ ~st.raised
         /\ question_text # <<>>
         /\ Cardinality(DOMAIN st.options) = 4
         /\ st.correct # <<>>
        THEN <<MultipleChoiceOf(question_text, st.options, st.correct[1])>>
        ELSE <<>>

\* exam_generator.py 216-260
parse_multiple_choice(text) ==
  LET sections == sections_of(text)
  IN  Flatten([i \in 1..Len(sections) |-> multiple_choice_section(sections[i])])

\* exam_generator.py 277-285: answer, None at first
RECURSIVE true_false_lines(_, _)
true_false_lines(lines, answer) ==
  IF lines = <<>> THEN answer
  ELSE LET line == Strip(Head(lines))
       IN  IF StartsWith(line, AnswerMarker)
             THEN true_false_lines(Tail(lines),
                    PyBool(Contains(Upper(Strip(AfterColon(line))),
                                    <<"T","R","U","E">>)))
             ELSE true_false_lines(Tail(lines), answer)

\* exam_generator.py 270-296
true_false_section(section) ==
  LET lines == lines_of(section)
      question_text == Strip(lines[1])
      answer == true_false_lines(Tail(lines), PyNone)
  IN  IF question_text # <<>> /\ answer # PyNone
        THEN <<TrueFalseQ(question_text, answer.b)>>
        ELSE <<>>

\* exam_generator.py 263-298
parse_true_false(text) ==
  LET sections == sections_of(text)
  IN  Flatten([i \in 1..Len(sections) |-> true_false_section(sections[i])])

\* exam_generator.py 315-322: the last value a marker introduces, "" if none
RECURSIVE marked_value(_, _, _)
marked_value(lines, marker, value) ==
  IF lines = <<>> THEN value
  ELSE IF StartsWith(Strip(Head(lines)), marker)
    THEN marked_value(Tail(lines), marker, Strip(AfterColon(Strip(Head(lines)))))
    ELSE marked_value(Tail(lines), marker, value)

\* exam_generator.py 308-333
short_answer_section(section) ==
  LET lines == lines_of(section)
      question_text == Strip(lines[1])
      sample_answer == marked_value(Tail(lines), SampleAnswerMarker, <<>>)
      key_points == marked_value(Tail(lines), KeyPointsMarker, <<>>)
  IN  IF question_text # <<>> /\ sample_answer # <<>>
        THEN <<ShortAnswerQ(question_text, sample_answer, key_points)>>
        ELSE <<>>

\* exam_generator.py 301-335
parse_short_answer(text) ==
  LET sections == sections_of(text)
  IN  Flatten([i \in 1..Len(sections) |-> short_answer_section(sections[i])])

(***************************************************************************)
(* submit_exam: the grading of one question (main.py 1160-1219).           *)
(***************************************************************************)
\* dict.get(key): the value, or None when the key is absent
DictGet(d, key) == IF key \in DOMAIN d THEN d[key] ELSE PyNone

\* main.py 1163-1166
correct_answer_of(question) ==
  IF question.type = "short_answer"
    THEN PyStr(question.sample_answer)
    ELSE question.correct_answer

\* the comparison of the string forms without lower()
true_false_exact(question, user_answer) ==
  IF user_answer.t = "bool"
    THEN user_answer.b = question.correct_answer.b
    ELSE Str(user_answer) = Str(question.correct_answer)

\* main.py 1171-1175
true_false_correct(question, user_answer) ==
  IF user_answer.t = "bool"
    THEN user_answer.b = question.correct_answer.b
    ELSE Lower(Str(user_answer)) = Lower(Str(question.correct_answer))

\* the comparison of the string forms without upper()
multiple_choice_exact(question, user_answer) ==
  Str(user_answer) = Str(question.correct_answer)

\* main.py 1177-1178
multiple_choice_correct(question, user_answer) ==
  Upper(Str(user_answer)) = Upper(Str(question.correct_answer))

\* main.py 1197-1200: the first separator that occurs in key_points splits it
Separators == <<",", ";", "BULLET", "-">>

\* key points without a separator taken as one key point
key_point_split_whole(key_points) ==
  IF \E k \in 1..Len(Separators) : Contains(key_points, <<Separators[k]>>)
    THEN LET k == CHOOSE j \in 1..Len(Separators) :
                    /\ Contains(key_points, <<Separators[j]>>)
                    /\ \A h \in 1..(j - 1) : ~Contains(key_points, <<Separators[h]>>)
             parts == SplitOn(key_points, Separators[k])
         IN  SelectSeq([i \in 1..Len(parts) |-> Strip(parts[i])],
                       LAMBDA p : p # <<>>)
    ELSE <<Strip(key_points)>>

key_point_split(key_points) ==
  IF \E k \in 1..Len(Separators) : Contains(key_points, <<Separators[k]>>)
    THEN LET k == CHOOSE j \in 1..Len(Separators) :
                    /\ Contains(key_points, <<Separators[j]>>)
                    /\ \A h \in 1..(j - 1) : ~Contains(key_points, <<Separators[h]>>)
             parts == SplitOn(key_points, Separators[k])
         IN  SelectSeq([i \in 1..Len(parts) |-> Strip(parts[i])],
                       LAMBDA p : p # <<>>)
    ELSE <<>>

\* main.py 1187: len(user_lower) < 10 is a trivial answer
MinAnswerLen == 10

MinPointLen == 3

\* the key-point path asking for every key point
has_key_points_all(question, user_lower) ==
  LET key_points == question.key_points
      split == IF key_points # <<>> THEN key_point_split(key_points) ELSE <<>>
      key_point_list == SelectSeq(split, LAMBDA p : Len(p) > MinPointLen)
      matches == Cardinality({i \in 1..Len(key_point_list) :
                                Contains(user_lower, Lower(key_point_list[i]))})
  IN  /\ key_point_list # <<>>
      /\ matches >= Len(key_point_list)

\* main.py 1191-1210: the key-point path
has_key_points(question, user_lower) ==
  LET key_points == question.key_points
      split == IF key_points # <<>> THEN key_point_split(key_points) ELSE <<>>
      key_point_list == SelectSeq(split, LAMBDA p : Len(p) > MinPointLen)
      matches == Cardinality({i \in 1..Len(key_point_list) :
                                Contains(user_lower, Lower(key_point_list[i]))})
  IN  /\ key_point_list # <<>>
      \* matches >= len(key_point_list) * 0.3: for n < 200000 the double
      \* n * 0.3 compares with an integer as the exact 3n/10 does
      /\ 10 * matches >= 3 * Len(key_point_list)

\* the word-overlap path with the threshold excluded
word_overlap_strict(correct_lower, user_lower) ==
  LET sample_words == ToSet(Split(correct_lower))
      user_words == ToSet(Split(user_lower))
      overlap == Cardinality(sample_words \cap user_words)
  IN  5 * overlap > Cardinality(sample_words)

\* main.py 1212-1217: the word-overlap path
word_overlap(correct_lower, user_lower) ==
  LET sample_words == ToSet(Split(correct_lower))
      user_words == ToSet(Split(user_lower))
      overlap == Cardinality(sample_words \cap user_words)
  IN  \* overlap >= len(sample_words) * 0.2: for n < 200000 the double
      \* n * 0.2 compares with an integer as the exact n/5 does
      5 * overlap >= Cardinality(sample_words)

\* main.py 1180-1219
short_answer_correct(question, user_answer) ==
  LET correct_answer == correct_answer_of(question)
  IN  IF Truthy(user_answer) /\ Truthy(correct_answer)
        THEN LET user_lower == Strip(Lower(Str(user_answer)))
                 correct_lower == Strip(Lower(Str(correct_answer)))
             IN  IF Len(user_lower) < MinAnswerLen
                   THEN FALSE
                   ELSE \/ word_overlap(correct_lower, user_lower)
                        \/ has_key_points(question, user_lower)
        ELSE FALSE

\* main.py 1168-1219
is_correct(question, user_answer) ==
  CASE question.type = "true_false" -> true_false_correct(question, user_answer)
    [] question.type = "multiple_choice" -> multiple_choice_correct(question, user_answer)
    [] question.type = "short_answer" -> short_answer_correct(question, user_answer)
    [] OTHER -> FALSE

\* main.py 1159-1231: one result per question, in question order.  Python
\* indexes questions from 0, sequences here start at 1.
grade(questions, user_answers) ==
  [i \in 1..Len(questions) |->
     LET user_answer == DictGet(user_answers, IntStr(i - 1))
     IN  [question_index |-> i - 1,
          correct |-> is_correct(questions[i], user_answer),
          user_answer |-> user_answer,
          correct_answer |-> correct_answer_of(questions[i])]]

(***************************************************************************)
(* Python float arithmetic (IEEE 754 binary64, round to nearest, ties to   *)
(* even).  A positive float is [m, exp], of value m * 2^exp, m an integer  *)
(* of at most 53 bits.  m is wider than a machine integer of the model, so *)
(* it is written in limbs of LimbBits bits, most significant first; the    *)
(* first limb alone may exceed a limb's width.                             *)
(***************************************************************************)
SignificandBits == 53

LimbBits == 15

RECURSIVE Pow2(_)
Pow2(k) == IF k = 0 THEN 1 ELSE 2 * Pow2(k - 1)

LimbBase == Pow2(LimbBits)

RECURSIVE BitLen(_)
BitLen(x) == IF x = 0 THEN 0 ELSE 1 + BitLen(x \div 2)

RECURSIVE TrimZeros(_)
TrimZeros(n) == IF n # <<>> /\ Head(n) = 0 THEN TrimZeros(Tail(n)) ELSE n

\* the number of bits of a limb sequence without leading zeros
BigBitLen(n) ==
  IF n = <<>> THEN 0 ELSE LimbBits * (Len(n) - 1) + BitLen(n[1])

\* the integer a limb sequence spells (small values only)
RECURSIVE BigToNat(_)
BigToNat(n) ==
  IF n = <<>> THEN 0
  ELSE LimbBase * BigToNat(SubSeq(n, 1, Len(n) - 1)) + n[Len(n)]

\* n divided by a small d: the quotient's limbs appended to acc, and the
\* remainder
RECURSIVE div_limbs(_, _, _, _)
div_limbs(n, d, r, acc) ==
  IF n = <<>> THEN [q |-> acc, r |-> r]
  ELSE div_limbs(Tail(n), d, (r * LimbBase + Head(n)) % d,
                 Append(acc, (r * LimbBase + Head(n)) \div d))

\* n * m + carry for a small m
RECURSIVE mul_limbs(_, _, _)
mul_limbs(n, m, carry) ==
  IF n = <<>> THEN (IF carry = 0 THEN <<>> ELSE <<carry>>)
  ELSE IF Len(n) = 1 THEN <<n[1] * m + carry>>
  ELSE mul_limbs(SubSeq(n, 1, Len(n) - 1), m,
                 (n[Len(n)] * m + carry) \div LimbBase)
         \o <<(n[Len(n)] * m + carry) % LimbBase>>

\* the first limb brought back within a limb's width
carry_out(n) ==
  IF n # <<>> /\ n[1] >= LimbBase
    THEN <<n[1] \div LimbBase, n[1] % LimbBase>> \o Tail(n)
    ELSE n

\* n + 1
RECURSIVE BigInc(_)
BigInc(n) ==
  IF n = <<>> THEN <<1>>
  ELSE IF Len(n) = 1 THEN <<n[1] + 1>>
  ELSE IF n[Len(n)] + 1 < LimbBase
    THEN SubSeq(n, 1, Len(n) - 1) \o <<n[Len(n)] + 1>>
    ELSE BigInc(SubSeq(n, 1, Len(n) - 1)) \o <<0>>

\* floor(n / 2^s), and whether a non-zero remainder is lost
shift_right(n, s) ==
  LET limbs == IF s \div LimbBits > Len(n) THEN Len(n) ELSE s \div LimbBits
      kept == SubSeq(n, 1, Len(n) - limbs)
      lost == SubSeq(n, Len(n) - limbs + 1, Len(n))
      d == div_limbs(kept, Pow2(s % LimbBits), 0, <<>>)
  IN  [q |-> TrimZeros(d.q),
       sticky |-> d.r # 0 \/ \E i \in 1..Len(lost) : lost[i] # 0]

IsOdd(n) == n # <<>> /\ n[Len(n)] % 2 = 1

\* the exact value (n + tail) * 2^exp, 0 <= tail < 1 and tail > 0 iff
\* sticky, rounded to 53 significant bits, ties to even
round_to_float(n, exp, sticky) ==
  LET extra == BigBitLen(n) - SignificandBits
      sh == shift_right(n, extra - 1)
      q == TrimZeros(div_limbs(sh.q, 2, 0, <<>>).q)
      up == IsOdd(sh.q) /\ (sticky \/ sh.sticky \/ IsOdd(q))
  IN  IF extra <= 0 THEN [m |-> n, exp |-> exp]
      ELSE [m |-> carry_out(IF up THEN BigInc(q) ELSE q), exp |-> exp + extra]

\* the least k with c * 2^k >= t
RECURSIVE shift_of(_, _)
shift_of(c, t) == IF c >= t THEN 0 ELSE 1 + shift_of(2 * c, t)

\* c / t for integers c, t > 0: floor(c * 2^(k + 53) / t) has at least 54 bits
float_div(c, t) ==
  LET k == shift_of(c, t)
      top == (SignificandBits % LimbBits)
      zeros == [i \in 1..(SignificandBits \div LimbBits) |-> 0]
      d == div_limbs(<<c * Pow2(k) * Pow2(top)>> \o zeros, t, 0, <<>>)
  IN  round_to_float(carry_out(TrimZeros(d.q)), 0 - k - SignificandBits, d.r # 0)

\* x * m for a float x and a small integer m
float_mul(x, m) ==
  round_to_float(carry_out(TrimZeros(mul_limbs(x.m, m, 0))), x.exp, FALSE)

\* int(x) for a float x >= 0: the fraction dropped
py_int(x) ==
  IF x.exp >= 0 THEN BigToNat(x.m) * Pow2(x.exp)
  ELSE BigToNat(shift_right(x.m, 0 - x.exp).q)

\* the float literal 0.5 = 2^-1
Float05 == [m |-> <<1>>, exp |-> 0 - 1]

\* the float literal 0.3 = 5404319552844595 * 2^-54 (0x13333333333333),
\* in limbs of 15 bits
Float03 == [m |-> <<153, 19660, 26214, 13107>>, exp |-> 0 - 54]

\* round(x) for a float x > 0: the nearest integer, an exact half going
\* to the even neighbour
py_round(x) ==
  LET sh == shift_right(x.m, (0 - x.exp) - 1)
      twice == BigToNat(sh.q)
      whole == twice \div 2
  IN  IF x.exp >= 0 THEN BigToNat(x.m) * Pow2(x.exp)
      ELSE IF twice % 2 = 1 /\ (sh.sticky \/ whole % 2 = 1)
        THEN whole + 1 ELSE whole

\* the percentage with an exam of no question counted as all correct
percentage_unguarded(correct_count, total) ==
  IF total > 0
    THEN IF correct_count = 0 THEN 0
         ELSE py_round(float_mul(float_div(correct_count, total), 100))
    ELSE 100

\* main.py 1234: round((correct_count / total) * 100) if total > 0 else 0
percentage_of(correct_count, total) ==
  IF total > 0
    THEN IF correct_count = 0 THEN 0
         ELSE py_round(float_mul(float_div(correct_count, total), 100))
    ELSE 0

(***************************************************************************)
(* Question generation (exam_generator.py 6-213).  reply is what the       *)
(* text-generation call ai_service._generate does for a type: it raises    *)
(* (ok false) or returns a text.                                           *)
(***************************************************************************)
Failure == [ok |-> FALSE, text |-> <<>>]

Reply(text) == [ok |-> TRUE, text |-> text]

\* the parsed questions returned whole
Slice_whole(questions, num_questions) == questions

\* questions[:num_questions]
Slice(questions, num_questions) ==
  IF num_questions >= 0
    THEN SubSeq(questions, 1, IF num_questions < Len(questions)
                                THEN num_questions ELSE Len(questions))
    ELSE SubSeq(questions, 1, Len(questions) + num_questions)

\* exam_generator.py 53-65: except Exception returns []
generate_multiple_choice(reply, num_questions) ==
  IF reply.ok THEN Slice(parse_multiple_choice(reply.text), num_questions) ELSE <<>>

\* exam_generator.py 112-124
generate_true_false(reply, num_questions) ==
  IF reply.ok THEN Slice(parse_true_false(reply.text), num_questions) ELSE <<>>

\* exam_generator.py 171-183
generate_short_answer(reply, num_questions) ==
  IF reply.ok THEN Slice(parse_short_answer(reply.text), num_questions) ELSE <<>>

\* exam_generator.py 198: int(total_questions * 0.5)
mc_count(total_questions) == py_int(float_mul(Float05, total_questions))

\* the true/false share rounded to the nearest count
tf_count_nearest(total_questions) == (3 * total_questions + 5) \div 10

\* exam_generator.py 199: int(total_questions * 0.3)
tf_count(total_questions) == py_int(float_mul(Float03, total_questions))

\* exam_generator.py 200
sa_count(total_questions) ==
  total_questions - mc_count(total_questions) - tf_count(total_questions)

\* a generation call: the type and the number of questions asked for
Call(type, count) == [type |-> type, count |-> count]

\* a mixed exam that a failing call leaves without questions
generate_mixed_exam_all_or_none(replies, total_questions) ==
  IF \E k \in DOMAIN replies : ~replies[k].ok
    THEN <<>>
    ELSE generate_multiple_choice(replies["multiple_choice"], mc_count(total_questions))
           \o generate_true_false(replies["true_false"], tf_count(total_questions))
           \o generate_short_answer(replies["short_answer"], sa_count(total_questions))

\* exam_generator.py 186-213: the questions returned
generate_mixed_exam(replies, total_questions) ==
  generate_multiple_choice(replies["multiple_choice"], mc_count(total_questions))
    \o generate_true_false(replies["true_false"], tf_count(total_questions))
    \o generate_short_answer(replies["short_answer"], sa_count(total_questions))

\* exam_generator.py 203-209: the calls generate_mixed_exam makes
mixed_calls(total_questions) ==
  <<Call("multiple_choice", mc_count(total_questions)),
    Call("true_false", tf_count(total_questions)),
    Call("short_answer", sa_count(total_questions))>>

\* main.py 975-985
generate_by_type(type, reply, count) ==
  CASE type = "multiple_choice" -> generate_multiple_choice(reply, count)
    [] type = "true_false" -> generate_true_false(reply, count)
    [] type = "short_answer" -> generate_short_answer(reply, count)

QuestionTypes == {"multiple_choice", "true_false", "short_answer"}

\* main.py 971-987: the loop over question_types.  bound: the local
\* questions has been assigned; the print of line 987 reads it, and raises
\* a NameError when no listed type has assigned it yet
RECURSIVE gather(_, _, _)
gather(question_types, replies, st) ==
  IF question_types = <<>> \/ st.raised THEN st
  ELSE LET qt == Head(question_types)
       IN  IF qt.count <= 0 THEN gather(Tail(question_types), replies, st)
           ELSE IF qt.type \in QuestionTypes
             THEN gather(Tail(question_types), replies,
                    [st EXCEPT
                       !.all_questions =
                          @ \o generate_by_type(qt.type, replies[qt.type], qt.count),
                       !.bound = TRUE,
                       !.calls = Append(@, Call(qt.type, qt.count))])
           ELSE IF st.bound THEN gather(Tail(question_types), replies, st)
           ELSE [st EXCEPT !.raised = TRUE]

\* main.py 964-991: all_questions, the calls made, and whether an exception
\* other than HTTPException was raised
gathered(question_types, question_count, replies) ==
  IF question_types # <<>>
    THEN gather(question_types, replies,
                [all_questions |-> <<>>, bound |-> FALSE, calls |-> <<>>,
                 raised |-> FALSE])
    ELSE [all_questions |-> generate_mixed_exam(replies, question_count),
          bound |-> FALSE, calls |-> mixed_calls(question_count),
          raised |-> FALSE]

\* every question gathered is kept whatever their number
no_questions_never(all_questions) == FALSE

\* main.py 993: if not all_questions
no_questions(all_questions) == all_questions = <<>>

\* main.py 947-952: combined_text is not empty iff some document was
\* extracted with success
combined_text_empty(docs) == \A i \in 1..Len(docs) : ~docs[i]

(***************************************************************************)
(* The exam store (exam_generator.py save_exam, load_exam) and the exam    *)
(* record.  files maps the file names present in the exams directory to    *)
(* the record each holds.  tracked says that the record has the keys       *)
(* attempts, best_score, attempt_count and last_attempt, which a freshly   *)
(* generated record lacks.                                                 *)
(***************************************************************************)
VARIABLES
  files,      \* the exams directory: file name -> exam record
  now,        \* the wall clock, as datetime.now() reads it
  resp,       \* the response of the last request handled
  hist,       \* per file, for stating the properties: since, the percentages
              \* of the submissions answered since the record was generated
              \* or reset, oldest first; wiped, the best score the last
              \* reset erased
  pc,         \* concurrent requests: where each worker's handler stands
  loc,        \* concurrent requests: each handler's local variables
  out,        \* concurrent requests: each worker's last response
  gen,        \* question generation: what the last request or parse was given
              \* and what it did, for stating the properties
  upload          \* upload processing: the run, its queue and its stream

vars == <<files, now, resp, hist, pc, loc, out, gen, upload>>

ExamStems == {"CS101_exam_a", "CS101_exam_b"}

\* the file names of the exams directory
FileNames == {[stem |-> x, json |-> TRUE] : x \in ExamStems}

\* the exam_id path parameter: with or without the .json extension
RequestIds == {[stem |-> x, json |-> j] : x \in ExamStems, j \in BOOLEAN}

\* main.py 1147-1148: if not exam_id.endswith('.json'): exam_id += '.json'
filename_of(exam_id) == [exam_id EXCEPT !.json = TRUE]

\* main.py 1012-1023: the record generate_exam_endpoint builds
new_exam(exam_id, questions, created) ==
  [id |-> exam_id.stem, created_at |-> created, questions |-> questions,
   title |-> exam_id.stem, course |-> "CS101", exam_type |-> "practice",
   question_count |-> Len(questions), document_ids |-> <<1>>,
   document_names |-> <<"notes.pdf">>,
   tracked |-> FALSE, attempts |-> <<>>, best_score |-> PyNone,
   attempt_count |-> 0, last_attempt |-> PyNone]

\* a save that appends the newest attempt to the history the file holds
save_exam_merging(fs, exam_data, filename) ==
  [f \in (DOMAIN fs) \cup {filename} |->
     IF f # filename THEN fs[f]
     ELSE IF filename \in DOMAIN fs /\ exam_data.attempts # <<>>
       THEN [exam_data EXCEPT
               !.attempts = Append(fs[filename].attempts,
                                   exam_data.attempts[Len(exam_data.attempts)]),
               !.attempt_count = Len(fs[filename].attempts) + 1]
       ELSE exam_data]

\* exam_generator.py 368-369: open(filepath, 'w') and dump: the whole record
\* replaces what the file held
save_exam(fs, exam_data, filename) ==
  [f \in (DOMAIN fs) \cup {filename} |->
     IF f = filename THEN exam_data ELSE fs[f]]

\* exam_generator.py 402-403: filepath.exists()
exam_exists(fs, filename) == filename \in DOMAIN fs

\* exam_generator.py 405-406
load_exam(fs, filename) == fs[filename]

\* main.py 1334: exam_path.unlink()
unlink(fs, filename) == [f \in (DOMAIN fs) \ {filename} |-> fs[f]]

(***************************************************************************)
(* submit_exam after grading: the attempt tracker (main.py 1233-1274).     *)
(***************************************************************************)
SeqMax(seq) ==
  CHOOSE m \in ToSet(seq) : \A i \in 1..Len(seq) : seq[i] <= m

Percentages(attempts) == [i \in 1..Len(attempts) |-> attempts[i].percentage]

\* main.py 1239-1244
new_attempt(results, total, ts) ==
  LET correct_count == Cardinality({i \in 1..Len(results) : results[i].correct})
  IN  [timestamp |-> ts, score |-> correct_count, total |-> total,
       percentage |-> percentage_of(correct_count, total)]

\* the new attempt put before the earlier ones
append_attempt_front(exam_data, attempt) ==
  <<attempt>> \o (IF exam_data.tracked THEN exam_data.attempts ELSE <<>>)

\* main.py 1247-1250
append_attempt(exam_data, attempt) ==
  Append(IF exam_data.tracked THEN exam_data.attempts ELSE <<>>, attempt)

\* the best score taken from the newest attempt alone
best_score_latest(attempts, percentage) == percentage

\* main.py 1253-1255
best_score_of(attempts, percentage) ==
  IF attempts # <<>> THEN SeqMax(Percentages(attempts)) ELSE percentage

\* last_attempt taken from the first attempt of the history
record_attempt_first(exam_data, attempts, best_score, attempt) ==
  [exam_data EXCEPT !.tracked = TRUE,
                    !.attempts = attempts,
                    !.best_score = PyInt(best_score),
                    !.attempt_count = Len(attempts),
                    !.last_attempt = PyInt(attempts[1].timestamp)]

\* main.py 1257-1259
record_attempt(exam_data, attempts, best_score, attempt) ==
  [exam_data EXCEPT !.tracked = TRUE,
                    !.attempts = attempts,
                    !.best_score = PyInt(best_score),
                    !.attempt_count = Len(attempts),
                    !.last_attempt = PyInt(attempt.timestamp)]

\* improved only when the best score is beaten
improved_strict(percentage, best_score, attempts) ==
  IF Len(attempts) > 1
    THEN percentage > SeqMax(Percentages(SubSeq(attempts, 1, Len(attempts) - 1)))
    ELSE FALSE

\* main.py 1273
improved_flag(percentage, best_score, attempts) ==
  IF Len(attempts) > 1 THEN percentage >= best_score ELSE FALSE

\* a reset that leaves the best score in place
reset_keeps_best(exam_data) ==
  [exam_data EXCEPT !.tracked = TRUE,
                    !.attempts = <<>>,
                    !.attempt_count = 0,
                    !.last_attempt = PyNone]

\* a reset that clears the questions with the attempts
reset_loses_questions(exam_data) ==
  [exam_data EXCEPT !.tracked = TRUE,
                    !.questions = <<>>,
                    !.attempts = <<>>,
                    !.best_score = PyNone,
                    !.attempt_count = 0,
                    !.last_attempt = PyNone]

\* main.py 1294-1297
reset_record(exam_data) ==
  [exam_data EXCEPT !.tracked = TRUE,
                    !.attempts = <<>>,
                    !.best_score = PyNone,
                    !.attempt_count = 0,
                    !.last_attempt = PyNone]

(***************************************************************************)
(* Responses.  status is the HTTP status; the other fields are those of    *)
(* the body the handler returns, at their defaults when it returns none.   *)
(***************************************************************************)
NoResponse ==
  [op |-> "none", file |-> [stem |-> "", json |-> TRUE], status |-> 0,
   score |-> 0, total |-> 0, percentage |-> 0, results |-> <<>>,
   best_score |-> PyNone, attempt_number |-> 0, improved |-> FALSE,
   attempts |-> <<>>, exam |-> <<>>]

Response(op, filename, status) ==
  [NoResponse EXCEPT !.op = op, !.file = filename, !.status = status]

\* main.py 1266-1274
submit_response(filename, results, attempt, best_score, attempts) ==
  [Response("submit", filename, 200) EXCEPT
     !.score = attempt.score,
     !.total = attempt.total,
     !.percentage = attempt.percentage,
     !.results = results,
     !.best_score = PyInt(best_score),
     !.attempt_number = Len(attempts),
     !.improved = improved_flag(attempt.percentage, best_score, attempts)]

\* main.py 1152-1262: what submit_exam makes of a loaded record
submitted(exam_data, user_answers, ts) ==
  LET questions == exam_data.questions
      results == grade(questions, user_answers)
      attempt == new_attempt(results, Len(questions), ts)
      attempts == append_attempt(exam_data, attempt)
      best_score == best_score_of(attempts, attempt.percentage)
  IN  [record |-> record_attempt(exam_data, attempts, best_score, attempt),
       results |-> results, attempt |-> attempt, best_score |-> best_score]

\* sorted(attempts, key=timestamp, reverse=True): a stable sort, so attempts
\* of equal timestamp keep their order (main.py 1106-1110)
RECURSIVE sorted_desc(_)
sorted_desc(attempts) ==
  IF attempts = <<>> THEN <<>>
  ELSE LET top == SeqMax([i \in 1..Len(attempts) |-> attempts[i].timestamp])
           k == CHOOSE i \in 1..Len(attempts) :
                  /\ attempts[i].timestamp = top
                  /\ \A j \in 1..(i - 1) : attempts[j].timestamp # top
       IN  <<attempts[k]>> \o
           sorted_desc(SubSeq(attempts, 1, k - 1) \o
                       SubSeq(attempts, k + 1, Len(attempts)))

(***************************************************************************)
(* Inputs of the model: the question lists generation can store, and the   *)
(* submissions a caller can send.                                          *)
(***************************************************************************)
W_the == <<"t","h","e">>

W_THE_upper == <<"T","H","E">>

W_via == <<"v","i","a">>

W_energy == <<"e","n","e","r","g","y">>

W_plants == <<"p","l","a","n","t","s">>

W_mitochondria == <<"m","i","t","o","c","h","o","n","d","r","i","a">>

W_produces == <<"p","r","o","d","u","c","e","s">>

W_cell == <<"c","e","l","l">>

W_respiration == <<"r","e","s","p","i","r","a","t","i","o","n">>

W_cells == <<"c","e","l","l","s">>

Space == <<" ">>

RECURSIVE Join(_)
Join(ws) ==
  IF ws = <<>> THEN <<>>
  ELSE IF Len(ws) = 1 THEN ws[1]
  ELSE ws[1] \o Space \o Join(Tail(ws))

\* "the mitochondria produces cell energy via respiration": 7 distinct words
SevenWords ==
  Join(<<W_the, W_mitochondria, W_produces, W_cell, W_energy, W_via, W_respiration>>)

\* "energy, cells"
EnergyCells == W_energy \o <<",", " ">> \o W_cells

\* "the mitochondria produces cell respiration": 5 distinct words
FiveWords ==
  Join(<<W_the, W_mitochondria, W_produces, W_cell, W_respiration>>)

FiveIDots == <<IDot, IDot, IDot, IDot, IDot>>

\* "energy, cells, plants, via-respiration, the": four key points of more
\* than 3 characters, a second separator inside one of them
FourPoints ==
  W_energy \o <<",", " ">> \o W_cells \o <<",", " ">> \o W_plants \o <<",", " ">>
    \o W_via \o <<"-">> \o W_respiration \o <<",", " ">> \o W_the

QText == <<"q">>

\* question lists of the exams of the sequential and concurrent specifications
GeneratedQuestionLists ==
  { <<TrueFalseQ(QText, TRUE), MultipleChoiceQ(QText, "B")>>,
    <<TrueFalseQ(QText, FALSE)>> }

\* the one-question exams of the grading specification
GradeQuestions ==
  { TrueFalseQ(QText, TRUE), TrueFalseQ(QText, FALSE),
    MultipleChoiceQ(QText, "B"),
    ShortAnswerQ(QText, SevenWords, <<>>),
    ShortAnswerQ(QText, FiveWords, <<>>),
    ShortAnswerQ(QText, Join(<<W_cell, W_energy>>), EnergyCells),
    ShortAnswerQ(QText, FiveIDots, <<>>),
    ShortAnswerQ(QText, FiveWords, FourPoints),
    ShortAnswerQ(QText, FiveWords, W_energy) }

Key0 == <<"0">>

Key1 == <<"1">>

\* a dict with the one entry key: value
Dict1(key, value) == [k \in {key} |-> value]

Dict2(v0, v1) == [k \in {Key0, Key1} |-> IF k = Key0 THEN v0 ELSE v1]

EmptyDict == [k \in {} |-> PyNone]

\* submissions of the sequential and concurrent specifications
SeqAnswers ==
  { EmptyDict,
    Dict1(Key0, PyBool(TRUE)),
    Dict1(Key0, PyBool(FALSE)),
    Dict2(PyBool(TRUE), PyStr(<<"b">>)),
    Dict2(PyStr(<<"n","o">>), PyStr(<<"B">>)) }

\* free texts of two words, with and without trailing spaces
FreeTexts ==
  { Join(<<W_the, W_via>>),                     \* 7 characters
    Join(<<W_the, W_via>>) \o <<" ", " ", " ">>, \* 10, of which 3 trailing spaces
    Join(<<W_the, W_energy>>),                  \* 10 characters
    Join(<<W_THE_upper, W_energy>>),
    Join(<<W_the, W_plants>>),
    Join(<<W_plants, W_plants>>),
    Join(<<W_energy, W_energy>>),
    Join(<<W_energy, W_plants>>) \o <<" ", " ", " ">>,
    W_energy \o <<" ", " ", " ", " ">> }              \* 10, of which 4 trailing spaces

ShortTexts ==
  { <<"T","r","u","e">>, <<"T","R","U","E">>, <<"t","r","u","e">>,
    <<"t","R","u","E">>, <<"y","e","s">>, <<"F","a","l","s","e">>,
    <<"n","o","t"," ","t","r","u","e">>, <<"t","r","u","e",".">>,
    <<"b">>, <<"B">>, <<"a">>, <<"b"," ">>, <<>>,
    W_cells, W_energy, W_energy \o Space \o <<"a","t","p">>, FiveIDots }

GradeValues ==
  {PyNone, PyBool(TRUE), PyBool(FALSE), PyInt(1), PyInt(0)}
    \cup {PyStr(x) : x \in ShortTexts \cup FreeTexts}
    \cup {PyList(Join(<<W_the, W_mitochondria, W_produces, W_energy>>)),
          PyList(<<"B">>)}

\* submissions of the grading specification: no entry at all, an entry for
\* another position, or one entry for position 0
GradeAnswers ==
  {EmptyDict, Dict1(Key1, PyBool(TRUE))} \cup {Dict1(Key0, v) : v \in GradeValues}

(***************************************************************************)
(* HTTP statuses                                                           *)
(***************************************************************************)
Ok == 200

NotFound == 404

BadRequest == 400

ServerError == 500

(***************************************************************************)
(* The request handlers of main.py, each run from its first line to its    *)
(* return with no other request in between.                                *)
(***************************************************************************)
\* the except clauses closing get_exam, get_exam_attempts, submit_exam,
\* reset_exam_attempts and delete_exam (main.py 1276-1282, 1339-1345): a
\* FileNotFoundError leaves as a 404, every other Exception as a 500.  An
\* HTTPException is an Exception, and no handler re-raises it.
status_of_exception(exception) ==
  IF exception = "FileNotFoundError" THEN NotFound ELSE ServerError

NoHistory == [since |-> <<>>, wiped |-> PyNone]

\* the handler returns: response r, directory fs, history h
Answered(r, fs, h) ==
  /\ resp' = r
  /\ files' = fs
  /\ hist' = h
  /\ UNCHANGED <<pc, loc, out, upload>>

\* a handler other than question generation returns
Returns(r, fs, h) == Answered(r, fs, h) /\ UNCHANGED gen

\* datetime.now(): successive readings of a request-serving thread differ
ClockRead == now < MaxTime /\ now' = now + 1

\* a handler that does not read the clock
ReturnsAtOnce(r, fs, h) == now' = now /\ Returns(r, fs, h)

\* no upload yet
NoUpload ==
  [pc |-> "idle", status |-> 0, stream |-> "none", queue |-> <<>>,
   pushed |-> <<>>, sent |-> <<>>, elapsed |-> 0, beats |-> 0, cards |-> 0,
   i |-> 1]

\* no generation request or parse yet
NoGen ==
  [kind |-> "none", lead |-> <<>>, blocks |-> <<>>, text |-> <<>>,
   parsed |-> <<>>, done |-> FALSE, docs |-> <<>>, types |-> <<>>,
   count |-> 0, replies |-> <<>>, calls |-> <<>>, all_questions |-> <<>>,
   raised |-> FALSE]

\* main.py 998-1032: generate_exam_endpoint once the questions are gathered;
\* filename is what the course code, the second and the uuid prefix give
generate_exam_endpoint(filename, questions) ==
  LET exam_data == new_exam(filename, questions, now)
  IN  /\ ClockRead
      /\ Returns([Response("generate", filename, Ok) EXCEPT !.exam = <<exam_data>>],
                 save_exam(files, exam_data, filename),
                 [hist EXCEPT ![filename] = NoHistory])

\* main.py 920-955: the status raised before any question is asked for, Ok
\* when none is.  docs lists, for each document the selector finds, whether
\* extract_text_from_pdf reports success.
selected(selector, docs) ==
  IF selector = "none" THEN BadRequest
  ELSE IF docs = <<>> THEN NotFound
  ELSE IF combined_text_empty(docs) THEN ServerError
  ELSE Ok

NothingGathered ==
  [all_questions |-> <<>>, bound |-> FALSE, calls |-> <<>>, raised |-> FALSE]

\* main.py 987-994, 1036-1040: the status once the questions are gathered
status_of_gathered(g) ==
  IF g.raised THEN status_of_exception("NameError")
  ELSE IF no_questions(g.all_questions) THEN ServerError
  ELSE Ok

\* main.py 899-1042: generate_exam_endpoint, one request
generate_exam_request(filename, selector, docs, question_types, question_count, replies) ==
  \E g \in {IF selected(selector, docs) = Ok
              THEN gathered(question_types, question_count, replies)
              ELSE NothingGathered} :
    LET status == IF selected(selector, docs) = Ok
                    THEN status_of_gathered(g) ELSE selected(selector, docs)
        exam_data == new_exam(filename, g.all_questions, now)
    IN  /\ gen' = [NoGen EXCEPT !.kind = selector, !.docs = docs,
                                !.types = question_types, !.count = question_count,
                                !.replies = replies, !.calls = g.calls,
                                !.all_questions = g.all_questions,
                                !.raised = g.raised, !.done = TRUE]
        /\ IF status = Ok
             THEN /\ ClockRead
                  /\ Answered([Response("generate", filename, Ok) EXCEPT
                                 !.exam = <<exam_data>>],
                              save_exam(files, exam_data, filename),
                              [hist EXCEPT ![filename] = NoHistory])
             ELSE /\ now' = now
                  /\ Answered(Response("generate", filename, status), files, hist)

\* main.py 1125-1140
get_exam(exam_id) ==
  LET filename == filename_of(exam_id)
  IN  IF exam_exists(files, filename)
        THEN ReturnsAtOnce([Response("get", filename, Ok) EXCEPT
                        !.exam = <<load_exam(files, filename)>>], files, hist)
        ELSE ReturnsAtOnce(Response("get", filename,
                              status_of_exception("FileNotFoundError")),
                     files, hist)

\* sum(a['percentage'] for a in attempts)
RECURSIVE SeqSum(_)
SeqSum(seq) == IF seq = <<>> THEN 0 ELSE Head(seq) + SeqSum(Tail(seq))

\* main.py 1064-1068: round(sum(...) / len(attempts)), None without attempts
average_score(attempts) ==
  IF attempts = <<>> THEN PyNone
  ELSE IF SeqSum(Percentages(attempts)) = 0 THEN PyInt(0)
  ELSE PyInt(py_round(float_div(SeqSum(Percentages(attempts)), Len(attempts))))

\* main.py 1058-1083: what the list says of one exam
summary(exam_data) ==
  [id |-> exam_data.id, title |-> exam_data.title, course |-> exam_data.course,
   exam_type |-> exam_data.exam_type, question_count |-> exam_data.question_count,
   created_at |-> exam_data.created_at, questions |-> exam_data.questions,
   best_score |-> exam_data.best_score,
   attempt_count |-> Len(exam_data.attempts),
   average_score |-> average_score(exam_data.attempts),
   last_attempt |-> exam_data.last_attempt,
   completed |-> Len(exam_data.attempts) > 0]

\* main.py 1051-1090: the summaries, newest first; the exams of a directory
\* are created at different times
RECURSIVE listed(_, _)
listed(fs, names) ==
  IF names = {} THEN <<>>
  ELSE LET newest == CHOOSE f \in names :
                       \A g \in names : fs[g].created_at <= fs[f].created_at
       IN  <<summary(fs[newest])>> \o listed(fs, names \ {newest})

NoFile == [stem |-> "", json |-> TRUE]

\* main.py 1044-1092
list_exams ==
  ReturnsAtOnce([Response("list", NoFile, Ok) EXCEPT
                   !.exam = listed(files, DOMAIN files)],
                files, hist)

\* main.py 1095-1123
get_exam_attempts(exam_id) ==
  LET filename == filename_of(exam_id)
  IN  IF exam_exists(files, filename)
        THEN LET exam_data == load_exam(files, filename)
                 attempts == IF exam_data.tracked THEN exam_data.attempts ELSE <<>>
             IN  ReturnsAtOnce([Response("attempts", filename, Ok) EXCEPT
                            !.attempts = sorted_desc(attempts),
                            !.best_score = exam_data.best_score,
                            !.attempt_number = Len(attempts)], files, hist)
        ELSE ReturnsAtOnce(Response("attempts", filename,
                              status_of_exception("FileNotFoundError")),
                     files, hist)

\* main.py 1142-1282
submit_exam(exam_id, user_answers) ==
  LET filename == filename_of(exam_id)
  IN  IF exam_exists(files, filename)
        THEN \E s \in {submitted(load_exam(files, filename), user_answers, now)} :
               /\ Len(s.record.attempts) <= MaxAttempts
               /\ ClockRead
               /\ Returns(submit_response(filename, s.results, s.attempt,
                                          s.best_score, s.record.attempts),
                          save_exam(files, s.record, filename),
                          [hist EXCEPT ![filename].since =
                             Append(@, s.attempt.percentage)])
        ELSE ReturnsAtOnce(Response("submit", filename,
                              status_of_exception("FileNotFoundError")),
                     files, hist)

\* main.py 1284-1310
reset_exam_attempts(exam_id) ==
  LET filename == filename_of(exam_id)
  IN  IF exam_exists(files, filename)
        THEN ReturnsAtOnce(Response("reset", filename, Ok),
                     save_exam(files, reset_record(load_exam(files, filename)),
                               filename),
                     [hist EXCEPT ![filename] =
                        [since |-> <<>>,
                         wiped |-> load_exam(files, filename).best_score]])
        ELSE ReturnsAtOnce(Response("reset", filename,
                              status_of_exception("FileNotFoundError")),
                     files, hist)

\* main.py 1312-1345: the 404 of line 1331 is an HTTPException raised inside
\* the try block
delete_exam(exam_id) ==
  LET filename == filename_of(exam_id)
  IN  IF ~exam_exists(files, filename)
        THEN ReturnsAtOnce(Response("delete", filename,
                              status_of_exception("HTTPException")),
                     files, hist)
        ELSE ReturnsAtOnce(Response("delete", filename, Ok),
                     unlink(files, filename),
                     [hist EXCEPT ![filename] = NoHistory])

Workers == {"w1", "w2"}

\* a handler's locals: exam_data holds the loaded record, if any.  raced and
\* rival serve to state the properties: raced, that another submission to
\* the same file was saved since this one loaded; rival, the attempt_number
\* that submission was answered when it had loaded the same record.
NoLocals ==
  [op |-> "none", file |-> [stem |-> "", json |-> TRUE],
   answers |-> EmptyDict, exam_data |-> <<>>, raced |-> FALSE, rival |-> <<>>]

InitWorkers ==
  /\ pc = [w \in Workers |-> "idle"]
  /\ loc = [w \in Workers |-> NoLocals]
  /\ out = [w \in Workers |-> NoResponse]
  /\ gen = NoGen
  /\ upload = NoUpload

Init ==
  /\ files = [f \in {} |-> <<>>]
  /\ now = 0
  /\ resp = NoResponse
  /\ hist = [f \in FileNames |-> NoHistory]
  /\ InitWorkers

Next ==
  \/ \E f \in FileNames, qs \in GeneratedQuestionLists : generate_exam_endpoint(f, qs)
  \/ list_exams
  \/ \E id \in RequestIds : get_exam(id)
  \/ \E id \in RequestIds : get_exam_attempts(id)
  \/ \E id \in RequestIds, a \in SeqAnswers : submit_exam(id, a)
  \/ \E id \in RequestIds : reset_exam_attempts(id)
  \/ \E id \in RequestIds : delete_exam(id)

Spec == Init /\ [][Next]_vars

(***************************************************************************)
(* The grading specification: one exam of one question, any of the         *)
(* questions, submitted to once with any of the submissions.               *)
(***************************************************************************)
GradeFile == [stem |-> "CS101_exam_a", json |-> TRUE]

InitGrade ==
  /\ \E q \in GradeQuestions :
       files = [f \in {GradeFile} |-> new_exam(GradeFile, <<q>>, 0)]
  /\ now = 0
  /\ resp = NoResponse
  /\ hist = [f \in FileNames |-> NoHistory]
  /\ InitWorkers

\* one submission to the freshly generated exam
NextGrade ==
  \E a \in GradeAnswers :
    /\ ~load_exam(files, GradeFile).tracked
    /\ submit_exam(GradeFile, a)

SpecGrade == InitGrade /\ [][NextGrade]_vars

(***************************************************************************)
(* The scoring specification: one exam of 0..MaxQuestions true/false       *)
(* questions, all stored true, submitted to once with the first c          *)
(* positions answered true and the others left out.                        *)
(***************************************************************************)
ScoreFile == [stem |-> "CS101_exam_a", json |-> TRUE]

ScoreQuestions(n) == [i \in 1..n |-> TrueFalseQ(QText, TRUE)]

ScoreAnswers(c) == [k \in {IntStr(i - 1) : i \in 1..c} |-> PyBool(TRUE)]

InitScore ==
  /\ \E n \in 0..MaxQuestions :
       files = [f \in {ScoreFile} |-> new_exam(ScoreFile, ScoreQuestions(n), 0)]
  /\ now = 0
  /\ resp = NoResponse
  /\ hist = [f \in FileNames |-> NoHistory]
  /\ InitWorkers

NextScore ==
  \E c \in 0..MaxQuestions :
    /\ ~load_exam(files, ScoreFile).tracked
    /\ submit_exam(ScoreFile, ScoreAnswers(c))

SpecScore == InitScore /\ [][NextScore]_vars

(***************************************************************************)
(* The parsing specification: one generated text, made of a lead and of    *)
(* 0..MaxBlocks question blocks, each ending its last line with a newline, *)
(* given once to the parser of its kind.                                   *)
(***************************************************************************)
\* the lines of a text, each closed by a newline
RECURSIVE Lines(_)
Lines(ls) == IF ls = <<>> THEN <<>> ELSE Head(ls) \o <<Newline>> \o Lines(Tail(ls))

QuestionMarker == <<"Q", ":", " ">>

\* the question text of the block at position i
QuestionText(i) == <<"q", Digits[i + 1]>>

OptionLine(letter) == <<letter, ")", " ", "x">>

BlockKinds == {"multiple_choice", "true_false", "short_answer"}

\* the forms of a block: well, whether every required marker is there;
\* value, what follows the CORRECT: or ANSWER: marker
BlockForms(kind) ==
  CASE kind = "multiple_choice" ->
         {[well |-> TRUE, lacks |-> "", value |-> v] :
            v \in {<<" ", "B">>, <<" ", "b">>, <<" ", "E">>, <<" ", "(", "B", ")">>}}
         \cup {[well |-> FALSE, lacks |-> x, value |-> <<" ", "B">>] :
                 x \in {"option", "marker"}}
    [] kind = "true_false" ->
         {[well |-> TRUE, lacks |-> "", value |-> v] :
            v \in {<<" ", "T", "R", "U", "E">>, <<" ", "F", "a", "l", "s", "e">>}}
         \cup {[well |-> FALSE, lacks |-> "marker", value |-> <<>>]}
    [] kind = "short_answer" ->
         {[well |-> TRUE, lacks |-> "", value |-> <<>>],
          [well |-> FALSE, lacks |-> "marker", value |-> <<>>]}

\* the text of the block of form b at position i
BlockText(kind, b, i) ==
  LET first == QuestionMarker \o QuestionText(i)
  IN  CASE kind = "multiple_choice" ->
             Lines(<<first, OptionLine("A"), OptionLine("B"), OptionLine("C")>>
                   \o (IF b.lacks = "option" THEN <<>> ELSE <<OptionLine("D")>>)
                   \o (IF b.lacks = "marker" THEN <<>>
                       ELSE <<CorrectMarker \o b.value>>))
        [] kind = "true_false" ->
             Lines(<<first>> \o (IF b.lacks = "marker" THEN <<>>
                                 ELSE <<AnswerMarker \o b.value>>))
        [] kind = "short_answer" ->
             Lines(<<first>>
                   \o (IF b.lacks = "marker" THEN <<>>
                       ELSE <<SampleAnswerMarker \o <<" ">> \o W_cell>>)
                   \o <<KeyPointsMarker \o <<" ">> \o W_energy>>)

\* the question a well-formed block states
BlockQuestion(kind, b, i) ==
  CASE kind = "multiple_choice" ->
         MultipleChoiceQ(QuestionText(i), Upper(Strip(b.value))[1])
    [] kind = "true_false" ->
         TrueFalseQ(QuestionText(i), Upper(Strip(b.value)) = <<"T", "R", "U", "E">>)
    [] kind = "short_answer" ->
         ShortAnswerQ(QuestionText(i), W_cell, W_energy)

\* what precedes the first block: nothing, an empty line, a line of text
Leads == {<<>>, <<Newline>>, W_the \o <<Newline>>}

BlockLists(kind) ==
  UNION {[1..n -> BlockForms(kind)] : n \in 0..MaxBlocks}

GeneratedText(kind, lead, blocks) ==
  lead \o Flatten([i \in 1..Len(blocks) |-> BlockText(kind, blocks[i], i)])

parser(kind, text) ==
  CASE kind = "multiple_choice" -> parse_multiple_choice(text)
    [] kind = "true_false" -> parse_true_false(text)
    [] kind = "short_answer" -> parse_short_answer(text)

InitParse ==
  /\ files = [f \in {} |-> <<>>]
  /\ now = 0
  /\ resp = NoResponse
  /\ hist = [f \in FileNames |-> NoHistory]
  /\ pc = [w \in Workers |-> "idle"]
  /\ loc = [w \in Workers |-> NoLocals]
  /\ out = [w \in Workers |-> NoResponse]
  /\ upload = NoUpload
  /\ \E kind \in BlockKinds, lead \in Leads :
       \E blocks \in BlockLists(kind) :
         gen = [NoGen EXCEPT !.kind = kind, !.lead = lead, !.blocks = blocks,
                             !.text = GeneratedText(kind, lead, blocks)]

Parse ==
  /\ ~gen.done
  /\ gen' = [gen EXCEPT !.parsed = parser(gen.kind, gen.text), !.done = TRUE]
  /\ UNCHANGED <<files, now, resp, hist, pc, loc, out, upload>>

SpecParse == InitParse /\ [][Parse]_vars

(***************************************************************************)
(* The generation specification: one generation request, for any of the    *)
(* selections of documents, of the lists of question types or of the mixed *)
(* counts 0..MaxCount, and any outcome of the text-generation call of each *)
(* type: a failure, or a text of 0..MaxBlocks well-formed blocks after an  *)
(* empty line.  A type listed in a request is listed once.                 *)
(***************************************************************************)
GenFile == [stem |-> "CS101_exam_a", json |-> TRUE]

WellFormed(kind) ==
  CASE kind = "multiple_choice" -> [well |-> TRUE, lacks |-> "", value |-> <<" ", "B">>]
    [] kind = "true_false" ->
         [well |-> TRUE, lacks |-> "", value |-> <<" ", "T", "R", "U", "E">>]
    [] kind = "short_answer" -> [well |-> TRUE, lacks |-> "", value |-> <<>>]

ReplyText(kind, n) ==
  GeneratedText(kind, <<Newline>>, [i \in 1..n |-> WellFormed(kind)])

RepliesOf(kind) == {Failure} \cup {Reply(ReplyText(kind, n)) : n \in 0..MaxBlocks}

ReplySets ==
  {[k \in QuestionTypes |-> IF k = "multiple_choice" THEN mc
                            ELSE IF k = "true_false" THEN tf ELSE sa] :
     mc \in RepliesOf("multiple_choice"), tf \in RepliesOf("true_false"),
     sa \in RepliesOf("short_answer")}

\* for each document found, whether its text is extracted
DocLists ==
  {<<>>, <<TRUE>>, <<FALSE>>, <<TRUE, FALSE>>, <<FALSE, TRUE>>, <<FALSE, FALSE>>}

Selections ==
  {[selector |-> "document_ids", docs |-> d] : d \in DocLists}
    \cup {[selector |-> "none", docs |-> <<>>]}

\* "essay" is a type the handler does not know
TypeLists ==
  {<<Call("multiple_choice", 1)>>,
   <<Call("true_false", 2)>>,
   <<Call("short_answer", 1)>>,
   <<Call("multiple_choice", 0)>>,
   <<Call("true_false", 3)>>,
   <<Call("multiple_choice", 2), Call("true_false", 1), Call("short_answer", 1)>>,
   <<Call("multiple_choice", 1), Call("true_false", 0), Call("short_answer", 2)>>,
   <<Call("essay", 1)>>,
   <<Call("essay", 1), Call("multiple_choice", 1)>>,
   <<Call("multiple_choice", 1), Call("essay", 1)>>}

DefaultCount == 20

\* question_types with the default question_count, or question_count alone
Requests ==
  {[types |-> t, count |-> DefaultCount] : t \in TypeLists}
    \cup {[types |-> <<>>, count |-> n] : n \in 0..MaxCount}

InitGen ==
  /\ files = [f \in {} |-> <<>>]
  /\ now = 0
  /\ resp = NoResponse
  /\ hist = [f \in FileNames |-> NoHistory]
  /\ InitWorkers

\* one request in a behaviour
NextGen ==
  /\ ~gen.done
  /\ \E s \in Selections, r \in Requests, replies \in ReplySets :
       generate_exam_request(GenFile, s.selector, s.docs, r.types, r.count, replies)

SpecGen == InitGen /\ [][NextGen]_vars

(***************************************************************************)
(* The identifier specification: exams are generated under the identifier  *)
(* that main.py 1002-1004 builds from the course code, the second of the   *)
(* wall clock and the first eight characters of a uuid4, and submissions   *)
(* are graded, one request at a time.                                      *)
(***************************************************************************)
CourseCodes == {"CS101"}

\* str(uuid.uuid4())[:8]: two of the 16^8 values
UniqueIds == {"1b9d6bcd", "f47ac10b"}

DecimalDigits == <<"0", "1", "2", "3", "4", "5", "6", "7", "8", "9">>

\* the whole seconds of a reading of the wall clock
seconds_of(t) == t \div ReadingsPerSecond

\* main.py 1003: datetime.now().strftime('%Y%m%d_%H%M%S'), the readings
\* counted from 2024-01-01 12:00:00
strftime(t) ==
  "20240101_1200" \o DecimalDigits[(seconds_of(t) \div 10) + 1]
                  \o DecimalDigits[(seconds_of(t) % 10) + 1]

\* main.py 1004: exam_id = f"{course_code}_exam_{timestamp}_{unique_id}"
\* and main.py 1026: filename = f"{exam_id}.json"
exam_filename(course_code, timestamp, unique_id) ==
  [stem |-> course_code \o "_exam_" \o timestamp \o "_" \o unique_id, json |-> TRUE]

\* the file names a generation can give
IdFileNames ==
  {exam_filename(c, strftime(t), u) : c \in CourseCodes, t \in 0..MaxTime, u \in UniqueIds}

\* main.py 1002-1029: the identifier is built and the exam saved under it
generate_exam(course_code, unique_id, questions) ==
  generate_exam_endpoint(exam_filename(course_code, strftime(now), unique_id), questions)

InitIds ==
  /\ files = [f \in {} |-> <<>>]
  /\ now = 0
  /\ resp = NoResponse
  /\ hist = [f \in IdFileNames |-> NoHistory]
  /\ InitWorkers

NextIds ==
  \/ \E c \in CourseCodes, u \in UniqueIds, qs \in GeneratedQuestionLists : generate_exam(c, u, qs)
  \/ \E f \in IdFileNames, a \in SeqAnswers : submit_exam(f, a)

SpecIds == InitIds /\ [][NextIds]_vars

(***************************************************************************)
(* Upload processing (main.py 363-607).  upload_pdf starts process_async   *)
(* as a task of the event loop and returns a stream that generate feeds    *)
(* from progress_queue.  upload.pc is where process_async stands, each step    *)
(* running it upload to its next await; upload.queue is progress_queue, the puts   *)
(* that call_soon_threadsafe schedules being run in the order they were    *)
(* scheduled; upload.pushed is every item ever put, upload.sent what generate has  *)
(* yielded, both for stating the properties.                               *)
(***************************************************************************)
\* main.py 402-403: the payload of push_progress
ProgressMessage(stage, progress_pct) ==
  [stage |-> stage, progress |-> progress_pct, status |-> "", flashcard_count |-> 0]

\* main.py 413: the payload of push_error
ErrorMessage ==
  [stage |-> "error", progress |-> 0, status |-> "", flashcard_count |-> 0]

\* main.py 568-577: the final result object
ResultMessage(flashcard_count) ==
  [stage |-> "", progress |-> 0, status |-> "success",
   flashcard_count |-> flashcard_count]

\* main.py 411, 414: None, the termination sentinel
Sentinel == [stage |-> "None", progress |-> 0, status |-> "", flashcard_count |-> 0]

\* main.py 402-405
push_progress(stage, progress_pct) == <<ProgressMessage(stage, progress_pct)>>

\* main.py 408-411
push_result(result_obj) == <<result_obj, Sentinel>>

\* an error pushed without the sentinel
push_error_unterminated == <<ErrorMessage>>

\* main.py 413-415
push_error == <<ErrorMessage, Sentinel>>

\* process_async goes to at, the items put on the queue
Puts(items, at) ==
  [upload EXCEPT !.queue = @ \o items, !.pushed = @ \o items, !.pc = at,
             !.elapsed = 0]

UploadStep(u) ==
  /\ upload' = u
  /\ UNCHANGED <<files, now, resp, hist, pc, loc, out, gen>>

\* main.py 363-397, 586, 604-607: a file that is no PDF is refused, a file
\* that cannot be saved is an error, otherwise the task is created and the
\* stream returned
upload_pdf(is_pdf, saved) ==
  /\ upload.pc = "idle"
  /\ UploadStep(IF ~is_pdf THEN [upload EXCEPT !.pc = "refused", !.status = BadRequest]
                ELSE IF ~saved
                  THEN [upload EXCEPT !.pc = "refused", !.status = ServerError]
                ELSE [upload EXCEPT !.pc = "created", !.status = Ok, !.stream = "open"])

\* main.py 422-427
process_start ==
  /\ upload.pc = "created"
  /\ UploadStep(Puts(push_progress("uploading", 10) \o push_progress("uploading", 20)
                       \o push_progress("extracting", 25),
                     "extracting"))

\* the stage and the first percentage of each heartbeat loop
HeartbeatBase ==
  [extracting |-> 25, summarizing |-> 55, generating_flashcards |-> 75]

\* elapsed * 2 up to 15
heartbeat_progress(base, elapsed) ==
  base + (IF 15 < elapsed * 2 THEN 15 ELSE elapsed * 2)

\* the whole seconds a loop can read: none, one, the last before the
\* ceiling of 15, and those on and after it
ElapsedValues == {0, 1, 7} \cup {e \in 8..MaxElapsed : TRUE}

\* main.py 430-436, 473-478, 517-522: one turn of a heartbeat loop, the
\* future not done; the clock of the loop does not go back
heartbeat ==
  /\ upload.pc \in DOMAIN HeartbeatBase
  /\ upload.beats < MaxBeats
  /\ \E later \in {e \in ElapsedValues : e >= upload.elapsed} :
       UploadStep([upload EXCEPT
          !.queue = @ \o push_progress(upload.pc,
                           heartbeat_progress(HeartbeatBase[upload.pc], upload.elapsed)),
          !.pushed = @ \o push_progress(upload.pc,
                           heartbeat_progress(HeartbeatBase[upload.pc], upload.elapsed)),
          !.beats = @ + 1,
          !.elapsed = later])

Outcomes == {"ok", "raises"}

\* main.py 438-446: the extraction is done: it raised, reported no success
\* or succeeded
extract_done(outcome) ==
  /\ upload.pc = "extracting"
  /\ UploadStep(IF outcome = "ok"
                  THEN Puts(push_progress("extracting", 40)
                              \o push_progress("storing", 45), "storing")
                  ELSE Puts(push_error, "done"))

\* main.py 458-465: the DB record is created, or create_doc_sync raised
store_done(outcome) ==
  /\ upload.pc = "storing"
  /\ UploadStep(IF outcome = "ok"
                  THEN Puts(push_progress("storing", 50)
                              \o push_progress("summarizing", 55), "summarizing")
                  ELSE Puts(push_error, "done"))

\* main.py 480-486: the summary is there, or summarize_text raised
summarize_done(outcome) ==
  /\ upload.pc = "summarizing"
  /\ UploadStep(IF outcome = "ok"
                  THEN Puts(push_progress("summarizing", 70), "saving_summary")
                  ELSE Puts(push_error, "done"))

\* main.py 506-509: the summary is saved, or save_summary_sync raised
save_summary_done(outcome) ==
  /\ upload.pc = "saving_summary"
  /\ UploadStep(IF outcome = "ok"
                  THEN Puts(push_progress("generating_flashcards", 75),
                            "generating_flashcards")
                  ELSE Puts(push_error, "done"))

\* main.py 524-530: cards flashcards are there, or generate_flashcards raised
flashcards_done(outcome, cards) ==
  /\ upload.pc = "generating_flashcards"
  /\ UploadStep(IF outcome = "ok"
                  THEN [Puts(push_progress("generating_flashcards", 90),
                             "saving_flashcards") EXCEPT !.cards = cards]
                  ELSE Puts(push_error, "done"))

\* main.py 544: saved_count is the number of flashcards, or
\* save_flashcards_sync raised
save_flashcards_done(outcome) ==
  /\ upload.pc = "saving_flashcards"
  /\ UploadStep(IF outcome = "ok"
                  THEN [Puts(<<>>, "reporting") EXCEPT !.i = 1]
                  ELSE Puts(push_error, "done"))

\* main.py 547: 90 + int((i / max(1, saved_count)) * 9)
saved_pct(i, saved_count) ==
  90 + py_int(float_mul(float_div(i, IF 1 < saved_count THEN saved_count ELSE 1), 9))

\* main.py 546-549: one turn of the loop over the saved flashcards
report_saved ==
  /\ upload.pc = "reporting"
  /\ upload.i <= upload.cards
  /\ UploadStep([Puts(push_progress("generating_flashcards",
                                    saved_pct(upload.i, upload.cards)), "reporting")
                   EXCEPT !.i = upload.i + 1])

\* main.py 562-583: finalize_sync is done, or raised
finalize_done(outcome) ==
  /\ upload.pc = "reporting"
  /\ upload.i > upload.cards
  /\ UploadStep(IF outcome = "ok"
                  THEN Puts(push_progress("complete", 100)
                              \o push_result(ResultMessage(upload.cards)), "done")
                  ELSE Puts(push_error, "done"))

\* main.py 589-598: generate takes an item and yields it, or ends at None
generate_yield ==
  /\ upload.stream = "open"
  /\ upload.queue # <<>>
  /\ UploadStep(IF Head(upload.queue) = Sentinel
                  THEN [upload EXCEPT !.queue = Tail(@), !.stream = "closed"]
                  ELSE [upload EXCEPT !.queue = Tail(@),
                                  !.sent = Append(@, Head(upload.queue))])

\* main.py 599-600: the caller went away, generate is cancelled
generate_cancelled ==
  /\ upload.stream = "open"
  /\ UploadStep([upload EXCEPT !.stream = "cancelled"])

\* a step of process_async that waits for the executor
executor_done ==
  \/ \E outcome \in Outcomes \cup {"failed"} : extract_done(outcome)
  \/ \E outcome \in Outcomes : store_done(outcome)
  \/ \E outcome \in Outcomes : summarize_done(outcome)
  \/ \E outcome \in Outcomes : save_summary_done(outcome)
  \/ \E outcome \in Outcomes, cards \in 0..MaxCards : flashcards_done(outcome, cards)
  \/ \E outcome \in Outcomes : save_flashcards_done(outcome)
  \/ \E outcome \in Outcomes : finalize_done(outcome)

NextUpload ==
  \/ \E is_pdf, saved \in BOOLEAN : upload_pdf(is_pdf, saved)
  \/ process_start
  \/ executor_done
  \/ heartbeat
  \/ report_saved
  \/ generate_yield
  \/ generate_cancelled

SpecUpload == Init /\ [][NextUpload]_vars

\* the event loop runs the task it was given and wakes it from its sleeps,
\* the executor finishes what it is given, the stream is read while the
\* caller stays; nothing makes the caller stay or go.  The weak fairness of
\* report_saved is written with its enabling condition spelled out.
FairUpload ==
  /\ SpecUpload
  /\ WF_vars(process_start)
  /\ WF_vars(executor_done)
  /\ \/ []<>~(upload.pc = "reporting" /\ upload.i <= upload.cards)
     \/ []<><<report_saved>>_vars
  /\ WF_vars(generate_yield)

(***************************************************************************)
(* The concurrent specification: the handlers are plain def functions,     *)
(* which the server runs on a pool of threads, one request per worker, and *)
(* nothing locks a file.  A handler is split where it reads or writes the  *)
(* exams directory; grading sits between the load and the save and reads   *)
(* only the handler's locals.  The clock is read at the save.              *)
(***************************************************************************)
ConcFile == [stem |-> "CS101_exam_a", json |-> TRUE]

ConcQuestions == <<TrueFalseQ(QText, FALSE)>>

ConcAnswers == {EmptyDict, Dict1(Key0, PyBool(FALSE))}

Idle(w) == pc[w] = "idle"

\* worker w answers r
Answers(w, r) ==
  /\ out' = [out EXCEPT ![w] = r]
  /\ pc' = [pc EXCEPT ![w] = "idle"]

\* worker w goes on to step at, having loaded the record of file for op
Loads(w, op, filename, user_answers, at) ==
  /\ loc' = [loc EXCEPT ![w] =
               [op |-> op, file |-> filename, answers |-> user_answers,
                exam_data |-> <<load_exam(files, filename)>>,
                raced |-> FALSE, rival |-> <<>>]]
  /\ pc' = [pc EXCEPT ![w] = at]

\* main.py 998-1032: the save of generate_exam_endpoint
generate_save(w, filename, questions) ==
  /\ Idle(w)
  /\ ClockRead
  /\ Answers(w, Response("generate", filename, Ok))
  /\ files' = save_exam(files, new_exam(filename, questions, now), filename)
  /\ hist' = [hist EXCEPT ![filename] = NoHistory]
  /\ UNCHANGED <<resp, gen, upload, loc>>

\* main.py 1151: submit_exam loads the record
submit_load(w, exam_id, user_answers) ==
  LET filename == filename_of(exam_id)
  IN  /\ Idle(w)
      /\ IF exam_exists(files, filename)
           THEN /\ Len(load_exam(files, filename).attempts) < MaxAttempts
                /\ Loads(w, "submit", filename, user_answers, "submit_loaded")
                /\ UNCHANGED out
           ELSE /\ Answers(w, Response("submit", filename,
                                       status_of_exception("FileNotFoundError")))
                /\ UNCHANGED loc
      /\ UNCHANGED <<files, now, resp, gen, upload, hist>>

\* main.py 1152-1274: submit_exam grades, saves and returns
submit_save(w) ==
  LET filename == loc[w].file
      s == submitted(loc[w].exam_data[1], loc[w].answers, now)
      r == submit_response(filename, s.results, s.attempt, s.best_score,
                           s.record.attempts)
  IN  /\ pc[w] = "submit_loaded"
      /\ ClockRead
      /\ files' = save_exam(files, s.record, filename)
      /\ Answers(w, r)
      /\ hist' = [hist EXCEPT ![filename].since = Append(@, s.attempt.percentage)]
      /\ loc' = [v \in Workers |->
                   IF v = w THEN NoLocals
                   ELSE IF pc[v] = "submit_loaded" /\ loc[v].file = filename
                     THEN [loc[v] EXCEPT
                             !.raced = TRUE,
                             !.rival = IF loc[v].exam_data = loc[w].exam_data
                                         THEN <<r.attempt_number>> ELSE @]
                     ELSE loc[v]]
      /\ UNCHANGED <<resp, gen, upload>>

\* main.py 1291: reset_exam_attempts loads the record
reset_load(w, exam_id) ==
  LET filename == filename_of(exam_id)
  IN  /\ Idle(w)
      /\ IF exam_exists(files, filename)
           THEN /\ Loads(w, "reset", filename, EmptyDict, "reset_loaded")
                /\ UNCHANGED out
           ELSE /\ Answers(w, Response("reset", filename,
                                       status_of_exception("FileNotFoundError")))
                /\ UNCHANGED loc
      /\ UNCHANGED <<files, now, resp, gen, upload, hist>>

\* main.py 1294-1305: reset_exam_attempts clears, saves and returns
reset_save(w) ==
  LET filename == loc[w].file
  IN  /\ pc[w] = "reset_loaded"
      /\ files' = save_exam(files, reset_record(loc[w].exam_data[1]), filename)
      /\ Answers(w, Response("reset", filename, Ok))
      /\ hist' = [hist EXCEPT ![filename] =
                    [since |-> <<>>,
                     wiped |-> IF exam_exists(files, filename)
                                 THEN load_exam(files, filename).best_score
                                 ELSE PyNone]]
      /\ loc' = [loc EXCEPT ![w] = NoLocals]
      /\ UNCHANGED <<now, resp, gen, upload>>

\* main.py 1327-1331: delete_exam tests exam_path.exists()
delete_check(w, exam_id) ==
  LET filename == filename_of(exam_id)
  IN  /\ Idle(w)
      /\ IF exam_exists(files, filename)
           THEN /\ loc' = [loc EXCEPT ![w] =
                             [NoLocals EXCEPT !.op = "delete", !.file = filename]]
                /\ pc' = [pc EXCEPT ![w] = "delete_checked"]
                /\ UNCHANGED out
           ELSE /\ Answers(w, Response("delete", filename,
                                       status_of_exception("HTTPException")))
                /\ UNCHANGED loc
      /\ UNCHANGED <<files, now, resp, gen, upload, hist>>

\* main.py 1334-1340: exam_path.unlink(), a FileNotFoundError when the file
\* is gone
delete_unlink(w) ==
  LET filename == loc[w].file
  IN  /\ pc[w] = "delete_checked"
      /\ IF exam_exists(files, filename)
           THEN /\ files' = unlink(files, filename)
                /\ Answers(w, Response("delete", filename, Ok))
                /\ hist' = [hist EXCEPT ![filename] = NoHistory]
           ELSE /\ Answers(w, Response("delete", filename,
                                       status_of_exception("FileNotFoundError")))
                /\ UNCHANGED <<files, hist>>
      /\ loc' = [loc EXCEPT ![w] = NoLocals]
      /\ UNCHANGED <<now, resp, gen, upload>>

NextConc ==
  \/ \E w \in Workers : generate_save(w, ConcFile, ConcQuestions)
  \/ \E w \in Workers, j \in BOOLEAN, a \in ConcAnswers :
       submit_load(w, [ConcFile EXCEPT !.json = j], a)
  \/ \E w \in Workers : submit_save(w)
  \/ \E w \in Workers, j \in BOOLEAN : reset_load(w, [ConcFile EXCEPT !.json = j])
  \/ \E w \in Workers : reset_save(w)
  \/ \E w \in Workers, j \in BOOLEAN : delete_check(w, [ConcFile EXCEPT !.json = j])
  \/ \E w \in Workers : delete_unlink(w)

SpecConc == Init /\ [][NextConc]_vars

(***************************************************************************)
(* Properties of the sequential specification Spec.  In Spec every step    *)
(* is one request, resp' is its response and resp'.file the file it        *)
(* addresses.                                                              *)
(***************************************************************************)
SubmitOk(r) == r.op = "submit" /\ r.status = Ok

\* C1: after the k-th (k >= 1) successful submission in a row to an exam,
\* with no reset in between, the best score stored and the best score
\* returned are the maximum of the k percentages returned.
C1_BestScoreIsMax ==
  SubmitOk(resp) =>
    /\ resp.file \in DOMAIN files
    /\ Len(hist[resp.file].since) >= 1
    /\ hist[resp.file].since[Len(hist[resp.file].since)] = resp.percentage
    /\ resp.best_score = PyInt(SeqMax(hist[resp.file].since))
    /\ files[resp.file].best_score = PyInt(SeqMax(hist[resp.file].since))

\* a second submission that scored below the first
C1_Witness ==
  /\ SubmitOk(resp)
  /\ Len(hist[resp.file].since) >= 2
  /\ resp.percentage < resp.best_score.n

\* C2: a submission is answered improved = true exactly when it is not the
\* first attempt of the history (attempt_number > 1) and its percentage is
\* at least the best score the record held when the submission arrived.
C2_ImprovedFlag ==
  [][SubmitOk(resp') /\ now' # now =>
       LET prior == files[resp'.file].best_score
       IN  resp'.improved =
             (/\ resp'.attempt_number > 1
              /\ prior.t = "int"
              /\ resp'.percentage >= prior.n)]_vars

\* a second submission that equals the best score so far and is answered
\* improved
C2_Witness ==
  /\ SubmitOk(resp)
  /\ resp.improved
  /\ Len(hist[resp.file].since) = 2
  /\ hist[resp.file].since[1] = resp.percentage

\* C3: a reset leaves attempts empty, attempt_count 0, best_score and
\* last_attempt null; the first submission after it is answered as a first
\* attempt (attempt_number 1, improved false) with its own percentage as best
\* score.
C3_ResetClears ==
  [][/\ (resp'.op = "reset" /\ resp'.status = Ok =>
           /\ files'[resp'.file].attempts = <<>>
           /\ files'[resp'.file].attempt_count = 0
           /\ files'[resp'.file].best_score = PyNone
           /\ files'[resp'.file].last_attempt = PyNone)
     /\ (/\ SubmitOk(resp') /\ now' # now
         /\ files[resp'.file].tracked
         /\ hist[resp'.file].since = <<>>
         => /\ resp'.attempt_number = 1
            /\ ~resp'.improved
            /\ resp'.best_score = PyInt(resp'.percentage)
            /\ files'[resp'.file].best_score = PyInt(resp'.percentage)
            /\ files'[resp'.file].attempt_count = 1)]_vars

\* the first submission after a reset scored below the best score the
\* reset erased
C3_Witness ==
  /\ SubmitOk(resp)
  /\ resp.attempt_number = 1
  /\ hist[resp.file].wiped.t = "int"
  /\ resp.percentage < hist[resp.file].wiped.n
  /\ ~resp.improved

\* C5: retrieval, submission, attempt-history retrieval, reset and deletion
\* of an identifier that has no record are answered 404 and change nothing
\* in the exams directory.
C5_MissingIsNotFound ==
  [][/\ resp'.op \in {"get", "submit", "attempts", "reset", "delete"}
     /\ resp'.file \notin DOMAIN files
     => /\ resp'.status = NotFound
        /\ files' = files]_vars

\* C23: a successful submission leaves the attempts of its exam as they
\* were with one attempt more at the end, and is answered the new count as
\* attempt_number; retrieving an exam, the list of exams or the attempts of
\* an exam changes no record.
C23_AppendOnly ==
  [][/\ SubmitOk(resp') =>
          /\ resp'.file \in DOMAIN files /\ resp'.file \in DOMAIN files'
          /\ Len(files'[resp'.file].attempts)
               = Len(files[resp'.file].attempts) + 1
          /\ SubSeq(files'[resp'.file].attempts, 1,
                    Len(files[resp'.file].attempts))
               = files[resp'.file].attempts
          /\ files'[resp'.file].attempt_count
               = Len(files[resp'.file].attempts) + 1
          /\ resp'.attempt_number = Len(files'[resp'.file].attempts)
     /\ resp'.op \in {"get", "attempts", "list"} => files' = files]_vars

\* the second submission in a row: the first attempt is still the first
C23_Witness ==
  /\ SubmitOk(resp)
  /\ resp.attempt_number = 2
  /\ resp.file \in DOMAIN files
  /\ Len(files[resp.file].attempts) = 2
  /\ files[resp.file].attempts[1].timestamp < files[resp.file].attempts[2].timestamp
  /\ files[resp.file].attempts[1].percentage # files[resp.file].attempts[2].percentage

\* what of a record is not its attempt history
Created(exam_data) ==
  [id |-> exam_data.id, title |-> exam_data.title, course |-> exam_data.course,
   exam_type |-> exam_data.exam_type, created_at |-> exam_data.created_at,
   document_ids |-> exam_data.document_ids,
   document_names |-> exam_data.document_names,
   question_count |-> exam_data.question_count,
   questions |-> exam_data.questions]

\* C27: a submission or a reset leaves, of the exam it addresses, the id,
\* title, course, exam type, creation time, documents and questions as they
\* were, and leaves the record of every other exam as it was.
C27_Frame ==
  [][resp'.op \in {"submit", "reset"} =>
       /\ DOMAIN files' = DOMAIN files
       /\ \A f \in DOMAIN files :
            IF f = resp'.file /\ resp'.status = Ok
              THEN Created(files'[f]) = Created(files[f])
              ELSE files'[f] = files[f]]_vars

\* a reset answered with success while another exam holds an attempt
C27_Witness ==
  /\ resp.op = "reset"
  /\ resp.status = Ok
  /\ resp.file \in DOMAIN files
  /\ files[resp.file].questions # <<>>
  /\ files[resp.file].attempts = <<>>
  /\ \E f \in DOMAIN files : f # resp.file /\ Len(files[f].attempts) = 1

(***************************************************************************)
(* Properties of the grading specification SpecGrade: resp is the response *)
(* to the one submission, the exam has one question.                       *)
(***************************************************************************)
Graded == resp.op = "submit"

TheQuestion == files[GradeFile].questions[1]

TheAnswer == resp.results[1].user_answer

MarkedCorrect == resp.results[1].correct

\* an entry whose JSON type is not one the question type takes: a boolean
\* or a string for true_false, a string for the other types
WrongShape(question, user_answer) ==
  IF question.type = "true_false"
    THEN user_answer.t \notin {"bool", "str"}
    ELSE user_answer.t # "str"

\* C6: a question that has no entry in the submission, or an entry of the
\* wrong shape, is graded incorrect; the submission is answered with one
\* result per question and its attempt is recorded.
C6_MalformedIsIncorrect ==
  Graded =>
    /\ resp.status = Ok
    /\ Len(resp.results) = Len(files[GradeFile].questions)
    /\ Len(files[GradeFile].attempts) = 1
    /\ (WrongShape(TheQuestion, TheAnswer) => ~MarkedCorrect)

\* the spellings of "true" in every letter case
TrueSpellings ==
  {<<a, b, c, d>> : a \in {"t", "T"}, b \in {"r", "R"},
                    c \in {"u", "U"}, d \in {"e", "E"}}

\* C7: against a stored true, the string "True" in any letter case and the
\* boolean true are graded correct and the string "yes" incorrect; a boolean
\* is graded correct iff it equals the stored boolean.
C7_TrueFalseCoercion ==
  Graded /\ TheQuestion.type = "true_false" =>
    /\ (/\ TheQuestion.correct_answer.b
        /\ TheAnswer.t = "str"
        /\ TheAnswer.s \in TrueSpellings
        => MarkedCorrect)
    /\ (/\ TheQuestion.correct_answer.b
        /\ TheAnswer = PyStr(<<"y", "e", "s">>)
        => ~MarkedCorrect)
    /\ (TheAnswer.t = "bool" =>
          (MarkedCorrect <=> TheAnswer.b = TheQuestion.correct_answer.b))

\* "TRUE" graded correct against a stored true
C7_Witness ==
  /\ Graded
  /\ TheQuestion = TrueFalseQ(QText, TRUE)
  /\ TheAnswer = PyStr(<<"T", "R", "U", "E">>)
  /\ MarkedCorrect

\* C8: a multiple_choice answer is graded correct iff the uppercased string
\* form of the submitted value equals the uppercased string form of the
\* stored letter; "b" matches the stored "B".
C8_MultipleChoiceCase ==
  Graded /\ TheQuestion.type = "multiple_choice" =>
    /\ (MarkedCorrect <=>
          Upper(Str(TheAnswer)) = Upper(Str(TheQuestion.correct_answer)))
    /\ (TheAnswer = PyStr(<<"b">>) /\ TheQuestion.correct_answer = PyStr(<<"B">>)
          => MarkedCorrect)

\* "b" graded correct against the stored "B"
C8_Witness ==
  /\ Graded
  /\ TheQuestion = MultipleChoiceQ(QText, "B")
  /\ TheAnswer = PyStr(<<"b">>)
  /\ MarkedCorrect

\* C9: a short_answer text shorter than 10 characters is graded incorrect.
C9_ShortTextIncorrect ==
  /\ Graded
  /\ TheQuestion.type = "short_answer"
  /\ TheAnswer.t = "str"
  /\ Len(TheAnswer.s) < MinAnswerLen
  => ~MarkedCorrect

\* distinct lowercased whitespace-separated words of a text
Words(text) == ToSet(Split(Lower(text)))

Shared(question, text) ==
  Cardinality(Words(question.sample_answer) \cap Words(text))

C24_TokenPresence ==
  /\ Graded
  /\ TheQuestion.type = "true_false"
  /\ TheQuestion.correct_answer = PyBool(TRUE)
  /\ TheAnswer.t # "bool"
  /\ Contains(Lower(Str(TheAnswer)), <<"t","r","u","e">>)
  => MarkedCorrect

\* the separator that splits key_points: the first, in the order of
\* Separators, that occurs in it; 0 when none does
SplittingSeparator(key_points) ==
  IF \E k \in 1..Len(Separators) : Contains(key_points, <<Separators[k]>>)
    THEN CHOOSE k \in 1..Len(Separators) :
           /\ Contains(key_points, <<Separators[k]>>)
           /\ \A h \in 1..(k - 1) : ~Contains(key_points, <<Separators[h]>>)
    ELSE 0

\* the fragments that remain: split on the one separator, surrounding
\* whitespace removed, of more than 3 characters
Fragments(key_points) ==
  IF SplittingSeparator(key_points) = 0 THEN <<>>
  ELSE LET parts == SplitOn(key_points, Separators[SplittingSeparator(key_points)])
       IN  SelectSeq([i \in 1..Len(parts) |-> Strip(parts[i])],
                     LAMBDA p : Len(p) > 3)

\* the fragments that occur in text, case ignored
Mentioned(key_points, text) ==
  Cardinality({i \in 1..Len(Fragments(key_points)) :
                 Contains(Lower(text), Lower(Fragments(key_points)[i]))})

\* at least one fragment remains and at least 30% of them occur in text
KeyPointPath(question, text) ==
  /\ Fragments(question.key_points) # <<>>
  /\ 10 * Mentioned(question.key_points, text)
       >= 3 * Len(Fragments(question.key_points))

WordOverlapPath(question, text) ==
  5 * Shared(question, text) >= Cardinality(Words(question.sample_answer))

\* C25 as stated: a short_answer text of at least 10 characters is graded
\* correct iff the key-point path or the word-overlap path succeeds.
C25_AsStated ==
  /\ Graded
  /\ TheQuestion.type = "short_answer"
  /\ TheAnswer.t = "str"
  /\ Len(TheAnswer.s) >= MinAnswerLen
  => (MarkedCorrect <=>
        KeyPointPath(TheQuestion, TheAnswer.s) \/ WordOverlapPath(TheQuestion, TheAnswer.s))

\* C25, amended: a short_answer text whose lowercased form, leading and
\* trailing whitespace removed, has at least 10 characters is graded correct
\* iff the key-point path succeeds (the key points split on the first of
\* the separators that occurs, fragments of 3 characters or fewer dropped,
\* at least one left and at least 30% of them in the text) or the
\* word-overlap path does.
C25_KeyPointPath ==
  /\ Graded
  /\ TheQuestion.type = "short_answer"
  /\ TheAnswer.t = "str"
  /\ Len(Strip(Lower(TheAnswer.s))) >= MinAnswerLen
  => (MarkedCorrect <=>
        KeyPointPath(TheQuestion, TheAnswer.s) \/ WordOverlapPath(TheQuestion, TheAnswer.s))

\* "energy plants   " mentions 2 of the 4 key points and shares no word with
\* the sample answer: graded correct
C25_Witness ==
  /\ Graded
  /\ TheQuestion = ShortAnswerQ(QText, FiveWords, FourPoints)
  /\ TheAnswer.t = "str"
  /\ Len(Fragments(TheQuestion.key_points)) = 4
  /\ Mentioned(TheQuestion.key_points, TheAnswer.s) = 2
  /\ ~WordOverlapPath(TheQuestion, TheAnswer.s)
  /\ MarkedCorrect

\* C29: when the key points are not empty and hold none of the separators,
\* no fragment is left and the key-point path fails whatever the text: the
\* answer is graded correct only if the word-overlap path succeeds.
C29_UnsplitKeyPoints ==
  /\ Graded
  /\ TheQuestion.type = "short_answer"
  /\ TheQuestion.key_points # <<>>
  /\ SplittingSeparator(TheQuestion.key_points) = 0
  => /\ ~has_key_points(TheQuestion, Strip(Lower(Str(TheAnswer))))
     /\ MarkedCorrect => WordOverlapPath(TheQuestion, Str(TheAnswer))

\* "energy energy" holds the whole key-points text "energy", shares no word
\* with the sample answer and is graded incorrect
C29_Witness ==
  /\ Graded
  /\ TheQuestion = ShortAnswerQ(QText, FiveWords, W_energy)
  /\ TheAnswer = PyStr(Join(<<W_energy, W_energy>>))
  /\ Contains(TheAnswer.s, TheQuestion.key_points)
  /\ ~MarkedCorrect

(***************************************************************************)
(* Properties of the scoring specification SpecScore.                      *)
(***************************************************************************)
\* the integer nearest to num / den, an exact half going to the even
\* neighbour, in exact arithmetic
NearestHalfEven(num, den) ==
  LET f == num \div den
      r == num % den
  IN  IF 2 * r > den \/ (2 * r = den /\ f % 2 = 1) THEN f + 1 ELSE f

Scored == resp.op = "submit" /\ resp.status = Ok

StoredAttempt == files[ScoreFile].attempts[1]

MarkedCount == Cardinality({i \in 1..Len(resp.results) : resp.results[i].correct})

\* C11: with total > 0 the percentage returned and stored is the integer
\* nearest to 100 * correct / total, exact halves going to the even
\* neighbour; it lies in 0..100, is 100 only when correct = total, and the
\* score is the number of results marked correct.
C11_PercentageIsNearest ==
  Scored /\ resp.total > 0 =>
    /\ resp.score = MarkedCount
    /\ StoredAttempt.score = MarkedCount
    /\ resp.percentage = NearestHalfEven(100 * resp.score, resp.total)
    /\ StoredAttempt.percentage = resp.percentage
    /\ resp.percentage \in 0..100
    /\ (resp.percentage = 100 => resp.score = resp.total)

\* C12: a submission to an exam whose question list is empty is answered
\* with success, score 0, total 0, percentage 0 and no result, and an
\* attempt of percentage 0 is recorded.
C12_EmptyExamScoresZero ==
  resp.op = "submit" /\ files[ScoreFile].questions = <<>> =>
    /\ resp.status = Ok
    /\ resp.score = 0
    /\ resp.total = 0
    /\ resp.percentage = 0
    /\ resp.results = <<>>
    /\ Len(files[ScoreFile].attempts) = 1
    /\ StoredAttempt.percentage = 0
    /\ StoredAttempt.total = 0
    /\ files[ScoreFile].best_score = PyInt(0)

\* the exam of no question has been submitted to
C12_Witness ==
  /\ Scored
  /\ files[ScoreFile].questions = <<>>
  /\ files[ScoreFile].attempt_count = 1

(***************************************************************************)
(* Properties of the parsing specification SpecParse.                      *)
(***************************************************************************)
\* the questions of the well-formed blocks, in the order of the text
WellFormedQuestions ==
  Flatten([i \in 1..Len(gen.blocks) |->
             IF gen.blocks[i].well
               THEN <<BlockQuestion(gen.kind, gen.blocks[i], i)>> ELSE <<>>])

\* C17: from a text of well-formed and malformed blocks, each introduced by
\* Q: at the start of a line, the first line included, each parser returns
\* exactly the questions of the well-formed blocks, in their order.
C17_ParserKeepsWellFormed ==
  gen.done => gen.parsed = WellFormedQuestions

\* C18: every multiple_choice question the parser returns has a non-empty
\* question text, the four options A, B, C, D and a correct_answer that is
\* one of these letters.
C18_MultipleChoiceShape ==
  gen.done /\ gen.kind = "multiple_choice" =>
    \A i \in 1..Len(gen.parsed) :
      /\ gen.parsed[i].question # <<>>
      /\ DOMAIN gen.parsed[i].options = OptionLetters
      /\ gen.parsed[i].correct_answer.t = "str"
      /\ Len(gen.parsed[i].correct_answer.s) = 1
      /\ gen.parsed[i].correct_answer.s[1] \in OptionLetters

(***************************************************************************)
(* Properties of the generation specification SpecGen.                     *)
(***************************************************************************)
\* the request has been served and its documents gave some text
Extracted ==
  gen.done /\ gen.kind = "document_ids" /\ ~combined_text_empty(gen.docs)

MixedRequest == Extracted /\ gen.types = <<>>

\* the questions a call keeps of its reply
Kept(call) ==
  IF gen.replies[call.type].ok
    THEN Slice(parser(call.type, gen.replies[call.type].text), call.count)
    ELSE <<>>

GenFailed == resp.status # Ok /\ GenFile \notin DOMAIN files

GenPersisted ==
  /\ resp.status = Ok
  /\ GenFile \in DOMAIN files
  /\ files[GenFile].questions = gen.all_questions

\* C13: a mixed request of n questions asks for floor(n/2) multiple-choice,
\* floor(3n/10) true/false and the remaining n - mc - tf >= 0 short-answer
\* questions, in that order; for n = 10 it asks for 5, 3 and 2.
C13_MixedSplit ==
  MixedRequest =>
    LET n == gen.count
        mc == n \div 2
        tf == (3 * n) \div 10
        sa == n - mc - tf
    IN  /\ gen.calls = <<Call("multiple_choice", mc), Call("true_false", tf),
                         Call("short_answer", sa)>>
        /\ sa >= 0
        /\ gen.calls[1].count + gen.calls[2].count + gen.calls[3].count = n
        /\ n = 10 => mc = 5 /\ tf = 3 /\ sa = 2

C13_Witness ==
  /\ MixedRequest
  /\ gen.count = 10
  /\ gen.calls = <<Call("multiple_choice", 5), Call("true_false", 3),
                   Call("short_answer", 2)>>

\* C14: a text-generation call that fails gives its type no question and
\* raises nothing: a mixed request still makes its three calls and keeps,
\* in order, what each call whose reply came keeps of it, whichever calls
\* fail; a request by types still makes the call of every listed type.
C14_FailureIsolated ==
  /\ MixedRequest =>
       /\ Len(gen.calls) = 3
       /\ gen.all_questions
            = Kept(gen.calls[1]) \o Kept(gen.calls[2]) \o Kept(gen.calls[3])
       /\ ~gen.raised
  /\ (Extracted /\ gen.types # <<>> /\ ~gen.raised) =>
       /\ \A i \in 1..Len(gen.types) :
            (gen.types[i].count > 0 /\ gen.types[i].type \in QuestionTypes)
              => \E j \in 1..Len(gen.calls) : gen.calls[j] = gen.types[i]
       /\ \A j \in 1..Len(gen.calls) :
            ~gen.replies[gen.calls[j].type].ok \/ Kept(gen.calls[j]) = <<>>
              \/ gen.all_questions # <<>>

C14_Witness ==
  /\ MixedRequest
  /\ ~gen.replies["multiple_choice"].ok
  /\ ~gen.replies["true_false"].ok
  /\ gen.replies["short_answer"].ok
  /\ Len(gen.calls) = 3
  /\ gen.all_questions # <<>>
  /\ gen.all_questions = Kept(gen.calls[3])
  /\ GenPersisted

C16_ExtractionFailureAborts ==
  (gen.done /\ \E i \in 1..Len(gen.docs) : ~gen.docs[i]) =>
    /\ resp.status # Ok
    /\ gen.calls = <<>>
    /\ GenFile \notin DOMAIN files

\* the first min(count, Len(questions)) of questions
FirstOf(questions, count) ==
  [i \in 1..(IF count < Len(questions) THEN count ELSE Len(questions)) |->
     questions[i]]

\* what a call whose reply came returns
Taken(call) ==
  IF gen.replies[call.type].ok
    THEN FirstOf(parser(call.type, gen.replies[call.type].text), call.count)
    ELSE <<>>

TypeRank(type) ==
  CASE type = "multiple_choice" -> 1 [] type = "true_false" -> 2
    [] type = "short_answer" -> 3

\* C26: a generator returns the first min(count, parsed) questions parsed
\* from its reply, in the order of the reply, so at most count; the mixed
\* exam is the multiple-choice list, then the true/false list, then the
\* short-answer list, and has at most the requested total of questions.
C26_TruncatedInOrder ==
  (Extracted /\ ~gen.raised) =>
    /\ gen.all_questions
         = Flatten([j \in 1..Len(gen.calls) |-> Taken(gen.calls[j])])
    /\ \A j \in 1..Len(gen.calls) :
         Len(generate_by_type(gen.calls[j].type, gen.replies[gen.calls[j].type],
                              gen.calls[j].count)) <= gen.calls[j].count
    /\ MixedRequest =>
         /\ Len(gen.all_questions) <= gen.count
         /\ \A i, j \in 1..Len(gen.all_questions) :
              i < j => TypeRank(gen.all_questions[i].type)
                         <= TypeRank(gen.all_questions[j].type)

\* a mixed request of 4 questions whose three replies hold 2 blocks each:
\* 2 multiple-choice, then 1 true/false, then 1 short-answer question
C26_Witness ==
  /\ MixedRequest
  /\ gen.count = 4
  /\ \A k \in QuestionTypes :
       gen.replies[k].ok /\ Len(parser(k, gen.replies[k].text)) = 2
  /\ Len(gen.all_questions) = 4
  /\ gen.all_questions[3].type = "true_false"
  /\ gen.all_questions[4].type = "short_answer"

\* the entries of a request whose type the handler knows
KnownEntries(question_types) ==
  SelectSeq(question_types, LAMBDA qt : qt.type \in QuestionTypes)

\* C30: an entry of positive count and of unknown type changes nothing for
\* the other entries: the request is answered, and gathers, as the request
\* without that entry is.
C30_UnknownTypeIgnored ==
  /\ Extracted
  /\ \E i \in 1..Len(gen.types) :
       gen.types[i].count > 0 /\ gen.types[i].type \notin QuestionTypes
  /\ KnownEntries(gen.types) # <<>>
  => /\ resp.status
          = status_of_gathered(gathered(KnownEntries(gen.types), gen.count,
                                        gen.replies))
     /\ gen.all_questions
          = gathered(KnownEntries(gen.types), gen.count, gen.replies).all_questions

(***************************************************************************)
(* Properties of the concurrent specification SpecConc.                    *)
(***************************************************************************)
\* C4: when two submissions to one file have both loaded the record before
\* either saves, both are answered with success and the later save writes
\* the record it loaded plus its own attempt: the history gains one attempt
\* for the two submissions, and two that loaded the same record are told the
\* same attempt_number.
C4_LostUpdate ==
  [][\A w \in Workers :
       pc[w] = "submit_loaded" /\ pc'[w] = "idle" /\ loc[w].raced =>
         LET filename == loc[w].file
             loaded == loc[w].exam_data[1]
         IN  /\ SubmitOk(out'[w])
             /\ filename \in DOMAIN files'
             /\ Len(files'[filename].attempts) = Len(loaded.attempts) + 1
             /\ SubSeq(files'[filename].attempts, 1, Len(loaded.attempts))
                  = loaded.attempts
             /\ out'[w].attempt_number = Len(loaded.attempts) + 1
             /\ (loc[w].rival # <<>> =>
                   out'[w].attempt_number = loc[w].rival[1])]_vars

\* two submissions answered with the same attempt_number, the record holding
\* one attempt fewer than the submissions answered since it was generated
C4_Witness ==
  \E w, v \in Workers :
    /\ w # v
    /\ Idle(w) /\ Idle(v)
    /\ SubmitOk(out[w]) /\ SubmitOk(out[v])
    /\ out[w].file = out[v].file
    /\ out[w].attempt_number = out[v].attempt_number
    /\ out[w].file \in DOMAIN files
    /\ Len(files[out[w].file].attempts) = out[w].attempt_number
    /\ Len(hist[out[w].file].since) = out[w].attempt_number + 1

\* worker w saves in this step the record it had loaded
SavesLoaded(w) ==
  pc[w] \in {"submit_loaded", "reset_loaded"} /\ pc'[w] = "idle"

\* C19: a record that a deletion has removed stays removed: the save of a
\* submission or of a reset that had loaded the record before the deletion
\* does not bring the file back.
C19_DeletedStaysDeleted ==
  [][\A w \in Workers :
       (SavesLoaded(w) /\ ~exam_exists(files, loc[w].file))
         => ~exam_exists(files', loc[w].file)]_vars

\* C20: once a reset has cleared the attempts of an exam, the persisted
\* history holds only attempts of submissions saved since that reset, so
\* no more of them than those submissions.
C20_ResetIsFinal ==
  \A f \in DOMAIN files :
    hist[f].wiped # PyNone => Len(files[f].attempts) <= Len(hist[f].since)

\* the derived fields of a record agree with its attempts
Consistent(exam_data) ==
  /\ exam_data.attempt_count = Len(exam_data.attempts)
  /\ IF exam_data.attempts = <<>>
       THEN exam_data.best_score = PyNone /\ exam_data.last_attempt = PyNone
       ELSE /\ exam_data.best_score.t = "int"
            /\ \E i \in 1..Len(exam_data.attempts) :
                 exam_data.attempts[i].percentage = exam_data.best_score.n
            /\ \A i \in 1..Len(exam_data.attempts) :
                 exam_data.attempts[i].percentage <= exam_data.best_score.n
            /\ exam_data.last_attempt
                 = PyInt(exam_data.attempts[Len(exam_data.attempts)].timestamp)

Terminal(item) == item.stage = "error" \/ item.status = "success"

\* what was put on progress_queue so far, in order: a terminal item is the
\* last but one and the sentinel follows it; the sentinel is the last and a
\* terminal item precedes it; a run that has ended has put both; the
\* progress values of the items before them never decrease, and 100 comes
\* right before the result; a stream that has ended has yielded every item
\* up to the terminal one
StreamDiscipline ==
  LET p == upload.pushed
      n == Len(p)
  IN  /\ \A k \in 1..n : Terminal(p[k]) => k = n - 1 /\ p[n] = Sentinel
      /\ \A k \in 1..n : p[k] = Sentinel => k = n /\ n >= 2 /\ Terminal(p[n - 1])
      /\ upload.pc = "done" => n >= 2 /\ p[n] = Sentinel
      /\ \A j, k \in 1..n :
           j < k /\ ~Terminal(p[k]) /\ p[k] # Sentinel => p[j].progress <= p[k].progress
      /\ \A k \in 1..n :
           p[k].status = "success" => k >= 2 /\ p[k - 1] = ProgressMessage("complete", 100)
      /\ upload.stream = "closed" => upload.sent \o <<Sentinel>> = p /\ upload.queue = <<>>

\* C28: every run of process_async, at whichever stage it succeeds or fails,
\* ends by putting exactly one terminal item (the result or an error) and
\* right after it exactly one sentinel, nothing after them; progress values
\* never decrease and 100 precedes the result; and the stream the caller
\* reads always ends, at the sentinel unless the caller went away first
C28_StreamTerminates ==
  /\ []StreamDiscipline
  /\ (upload.stream = "open") ~> (upload.stream \in {"closed", "cancelled"})

\* a run with heartbeats and flashcards whose stream was read to its end,
\* the result the last item yielded
C28_Witness ==
  /\ upload.stream = "closed"
  /\ upload.beats > 0
  /\ upload.cards > 0
  /\ upload.sent # <<>>
  /\ upload.sent[Len(upload.sent)].status = "success"
  /\ \E k \in 1..Len(upload.sent) : upload.sent[k] = ProgressMessage("extracting", 40)

(***************************************************************************)
(* Identifiers (SpecIds).                                                  *)
(***************************************************************************)
\* C21: generating an exam leaves every exam record that is already
\* persisted, its questions and its attempt history, as it was: the
\* identifier of the new exam is the name of no persisted record, also when
\* the course and the second are the same, whatever the random suffix is.
C21_NeverOverwrites ==
  [][resp'.op = "generate" =>
       \A f \in DOMAIN files : f \in DOMAIN files' /\ files'[f] = files[f]]_vars


====
